---- MODULE Spec2Model ----
(***************************************************************************)
(* Resumable batch-crawl engine of the Google Drive inventory scripts.     *)
(*                                                                         *)
(* The module models the "complete" inventory                              *)
(* (src/src/core/drive-inventory-complete.js): the script properties that  *)
(* form the checkpoint, the file iterator, the per-file aggregation and    *)
(* the batch / continuous-mode control flow.  Sizes, ages and the list cap *)
(* are scaled down; every scaled constant names the source line it stands  *)
(* for.                                                                    *)
(*                                                                         *)
(* Modelling decisions:                                                    *)
(*  - a continuation token is the number of items the iterator has         *)
(*    consumed (0 = property absent); the code never parses it;            *)
(*  - the age of a file in days is an attribute of the file (the clock     *)
(*    does not cross a day boundary during a run);                         *)
(*  - stats.startTime is a timestamp no claim refers to and is left out;   *)
(*  - a file's processing either succeeds, raises in extractFileData       *)
(*    (before any statistic is touched) or raises in addToFileListSheet    *)
(*    (after all statistics are updated); which one is an attribute of the *)
(*    file;                                                                *)
(*  - the serialized size of the statistics is measured in per-file        *)
(*    records, the part that grows with the number of files.               *)
(***************************************************************************)
EXTENDS Integers, Sequences, FiniteSets, TLC

\* ---------------------------------------------------------------- bounds
MaxFiles == 3
MaxBatch == 2
\* capacity of one script property, in per-file records (9 KB on the host)
QuotaRecords == 8
\* saturation of the per-file "handed to processFileForInventory" counter
HandedCap == 2
\* number of invocations the host kills
MaxKills == 1
\* number of invocations started while another one is executing
MaxOverlaps == 1
\* length of the drive the shared-files audit scans
MaxScanFiles == 11

\* ------------------------------------------------ scaled program constants
\* CONFIG.BATCH_SIZE is chosen per run in 1..MaxBatch (variable batchSize)
\* slice(0, 100) / length < 100 in processFileForInventory
LIST_CAP == 2
\* CONFIG.LARGE_FILE_THRESHOLD_MB (in model size units)
LARGE_FILE_THRESHOLD == 2
\* CONFIG.OLD_FILE_THRESHOLD_DAYS (in model days)
OLD_FILE_THRESHOLD_DAYS == 1
\* CONFIG.MAX_DUPLICATE_GROUPS
MAX_DUPLICATE_GROUPS == 100
\* testInventory: CONFIG.BATCH_SIZE = 10 for the test batch
TEST_BATCH_SIZE == 2
\* processFileOptimized: at most 50 keys in filesByType
MAX_FILE_TYPES == 50
\* getSharedFilesToProcess: maxCheck = batchSize * 10
MAX_CHECK_FACTOR == 10

Min(a, b) == IF a < b THEN a ELSE b

\* ------------------------------------------------------------ drive files
\* One file of the drive as the DriveApp iterator returns it.
\*   sharing : what getSharingAccess().toString() gives, or "RAISES"
\*   incl    : result of shouldIncludeFile
\*   fail    : "none" | "early" (extractFileData raises)
\*                    | "late"  (addToFileListSheet raises)
File(n, sz, ag, sh, inc, fl) ==
  [name |-> n, size |-> sz, age |-> ag, sharing |-> sh, incl |-> inc, fail |-> fl]

FileKinds ==
  { File("a", 1, 0, "PRIVATE", TRUE,  "none"),
    File("a", 1, 2, "ANYONE",  TRUE,  "none"),
    File("b", 3, 2, "RAISES",  TRUE,  "none"),
    File("c", 5, 3, "ANYONE",  TRUE,  "none"),
    File("c", 4, 4, "DOMAIN",  TRUE,  "late"),
    File("e", 3, 0, "PRIVATE", TRUE,  "early"),
    File("t", 1, 0, "PRIVATE", FALSE, "none") }

RECURSIVE SeqsUpTo(_, _)
SeqsUpTo(S, n) ==
  IF n = 0 THEN { <<>> }
  ELSE LET shorter == SeqsUpTo(S, n - 1)
       IN  shorter \cup { Append(s, x) : s \in { t \in shorter : Len(t) = n - 1 }, x \in S }

\* ------------------------------------------------------------- statistics
EmptyMap == [k \in {} |-> 0]

\* initializeStats({}) : the statistics of a run that has processed nothing
FreshStats ==
  [ totalFiles |-> 0, totalSize |-> 0,
    filesByType |-> EmptyMap, filesByFolder |-> EmptyMap,
    filesByOwner |-> EmptyMap, filesByYear |-> EmptyMap,
    largeFiles |-> <<>>, oldFiles |-> <<>>, sharedFiles |-> <<>>,
    duplicateCandidates |-> EmptyMap, errors |-> 0 ]

\* the counter update with the slip of counting a key the first time only
Incr_Mutant(m, k) ==
  IF k \in DOMAIN m THEN m ELSE m @@ (k :> 1)

\* m[k] = (m[k] || 0) + 1
Incr(m, k) ==
  IF k \in DOMAIN m THEN [m EXCEPT ![k] = @ + 1] ELSE m @@ (k :> 1)

\* if (!m[k]) m[k] = []; m[k].push(e)
PushTo(m, k, e) ==
  IF k \in DOMAIN m THEN [m EXCEPT ![k] = Append(@, e)] ELSE m @@ (k :> <<e>>)

\* Array.prototype.sort((a, b) => b.size - a.size) is stable: an element
\* goes after every element whose size is at least its own.
InsertBySize(sorted, e) ==
  LET p == Cardinality({ i \in 1..Len(sorted) : sorted[i].size >= e.size })
  IN  SubSeq(sorted, 1, p) \o <<e>> \o SubSeq(sorted, p + 1, Len(sorted))

RECURSIVE SortBySizeDesc(_)
SortBySizeDesc(s) ==
  IF s = <<>> THEN <<>>
  ELSE InsertBySize(SortBySizeDesc(SubSeq(s, 1, Len(s) - 1)), s[Len(s)])

\* Array.prototype.slice(0, n)
Slice(s, n) == SubSeq(s, 1, Min(n, Len(s)))

\* getFileType: extension of the name through typeMap
getFileType(name) ==
  IF name \in {"a", "t"} THEN "Text File"
  ELSE IF name = "b" THEN "PDF"
  ELSE IF name = "c" THEN "Video"
  ELSE "Archive"

\* extractFileData: sharing defaults to 'Private'/'None' and is overwritten
\* by access.toString() unless reading it raises
extractFileData(f) ==
  [ name |-> f.name, size |-> f.size, type |-> getFileType(f.name),
    ageInDays |-> f.age, year |-> 2025 - f.age,
    owner |-> IF f.name \in {"a", "b"} THEN "me" ELSE "other",
    folderPath |-> IF f.size > 2 THEN "Media" ELSE "Root",
    sharingAccess |-> IF f.sharing = "RAISES" THEN "Private" ELSE f.sharing ]

\* the statistics updates with a large-files list that takes a file only
\* while it is not full
UpdateStats_Mutant(stats, d) ==
  LET large == IF d.size > LARGE_FILE_THRESHOLD /\ Len(stats.largeFiles) < LIST_CAP
               THEN Slice(SortBySizeDesc(Append(stats.largeFiles,
                                 [name |-> d.name, size |-> d.size])), LIST_CAP)
               ELSE stats.largeFiles
      old   == IF d.ageInDays > OLD_FILE_THRESHOLD_DAYS /\ Len(stats.oldFiles) < LIST_CAP
               THEN Append(stats.oldFiles, [name |-> d.name, ageInDays |-> d.ageInDays])
               ELSE stats.oldFiles
      shrd  == IF d.sharingAccess # "Private" /\ Len(stats.sharedFiles) < LIST_CAP
               THEN Append(stats.sharedFiles,
                           [name |-> d.name, sharingAccess |-> d.sharingAccess])
               ELSE stats.sharedFiles
  IN  [ totalFiles |-> stats.totalFiles + 1,
        totalSize |-> stats.totalSize + d.size,
        filesByType |-> Incr(stats.filesByType, d.type),
        filesByFolder |-> Incr(stats.filesByFolder, d.folderPath),
        filesByOwner |-> Incr(stats.filesByOwner, d.owner),
        filesByYear |-> Incr(stats.filesByYear, d.year),
        largeFiles |-> large, oldFiles |-> old, sharedFiles |-> shrd,
        duplicateCandidates |->
          PushTo(stats.duplicateCandidates, <<d.name, d.size>>,
                 [name |-> d.name, size |-> d.size]),
        errors |-> stats.errors ]

\* the statistics updates of processFileForInventory, lines 292-364
UpdateStats(stats, d) ==
  LET large == IF d.size > LARGE_FILE_THRESHOLD
               THEN Slice(SortBySizeDesc(Append(stats.largeFiles,
                                 [name |-> d.name, size |-> d.size])), LIST_CAP)
               ELSE stats.largeFiles
      old   == IF d.ageInDays > OLD_FILE_THRESHOLD_DAYS /\ Len(stats.oldFiles) < LIST_CAP
               THEN Append(stats.oldFiles, [name |-> d.name, ageInDays |-> d.ageInDays])
               ELSE stats.oldFiles
      shrd  == IF d.sharingAccess # "Private" /\ Len(stats.sharedFiles) < LIST_CAP
               THEN Append(stats.sharedFiles,
                           [name |-> d.name, sharingAccess |-> d.sharingAccess])
               ELSE stats.sharedFiles
  IN  [ totalFiles |-> stats.totalFiles + 1,
        totalSize |-> stats.totalSize + d.size,
        filesByType |-> Incr(stats.filesByType, d.type),
        filesByFolder |-> Incr(stats.filesByFolder, d.folderPath),
        filesByOwner |-> Incr(stats.filesByOwner, d.owner),
        filesByYear |-> Incr(stats.filesByYear, d.year),
        largeFiles |-> large, oldFiles |-> old, sharedFiles |-> shrd,
        duplicateCandidates |->
          PushTo(stats.duplicateCandidates, <<d.name, d.size>>,
                 [name |-> d.name, size |-> d.size]),
        errors |-> stats.errors ]

\* processFileForInventory with the slip of swallowing the error of
\* addToFileListSheet (no rethrow at line 371)
processFileForInventory_Mutant(stats, f) ==
  IF f.fail = "early" THEN [stats |-> stats, threw |-> TRUE]
  ELSE [stats |-> UpdateStats(stats, extractFileData(f)), threw |-> FALSE]

\* processFileForInventory: the statistics it leaves and whether it raised
processFileForInventory(stats, f) ==
  IF f.fail = "early" THEN [stats |-> stats, threw |-> TRUE]
  ELSE [stats |-> UpdateStats(stats, extractFileData(f)), threw |-> f.fail = "late"]

\* the for-loop of runInventoryBatch, lines 159-168 (st and fs name the
\* values of the arguments, so that each is computed once per iteration)
RECURSIVE ProcessFiles(_, _)
ProcessFiles(stats, files) ==
  CHOOSE result \in
    { IF fs = <<>> THEN st
      ELSE LET r == processFileForInventory(st, Head(fs))
               s == IF r.threw THEN [r.stats EXCEPT !.errors = @ + 1] ELSE r.stats
           IN  ProcessFiles(s, Tail(fs)) : st \in {stats}, fs \in {files} } : TRUE

\* number of per-file records held by a statistics object
Sum(m) ==
  LET RECURSIVE Acc(_)
      Acc(K) == IF K = {} THEN 0
                ELSE LET k == CHOOSE x \in K : TRUE IN Len(m[k]) + Acc(K \ {k})
  IN  Acc(DOMAIN m)

Records(stats) ==
  Len(stats.largeFiles) + Len(stats.oldFiles) + Len(stats.sharedFiles)
    + Sum(stats.duplicateCandidates)

\* JSON.stringify(stats): objects become sets of members, arrays stay arrays
Members(m) == { <<k, m[k]>> : k \in DOMAIN m }
JsonStringify(stats) ==
  [ totalFiles |-> stats.totalFiles, totalSize |-> stats.totalSize,
    filesByType |-> Members(stats.filesByType),
    filesByFolder |-> Members(stats.filesByFolder),
    filesByOwner |-> Members(stats.filesByOwner),
    filesByYear |-> Members(stats.filesByYear),
    largeFiles |-> stats.largeFiles, oldFiles |-> stats.oldFiles,
    sharedFiles |-> stats.sharedFiles,
    duplicateCandidates |-> Members(stats.duplicateCandidates),
    errors |-> stats.errors ]

\* JSON.parse of an object's members
Object(ms) == [k \in { p[1] : p \in ms } |-> (CHOOSE p \in ms : p[1] = k)[2]]

\* initializeStats with the slip of not restoring the large-files list
initializeStats_Mutant(property) ==
  IF property = <<>> THEN FreshStats
  ELSE LET j == property[1]
       IN  [ totalFiles |-> j.totalFiles, totalSize |-> j.totalSize,
             filesByType |-> Object(j.filesByType),
             filesByFolder |-> Object(j.filesByFolder),
             filesByOwner |-> Object(j.filesByOwner),
             filesByYear |-> Object(j.filesByYear),
             largeFiles |-> <<>>, oldFiles |-> j.oldFiles,
             sharedFiles |-> j.sharedFiles,
             duplicateCandidates |-> Object(j.duplicateCandidates),
             errors |-> j.errors ]

\* initializeStats(JSON.parse(property || '{}'))
initializeStats(property) ==
  IF property = <<>> THEN FreshStats
  ELSE LET j == property[1]
       IN  [ totalFiles |-> j.totalFiles, totalSize |-> j.totalSize,
             filesByType |-> Object(j.filesByType),
             filesByFolder |-> Object(j.filesByFolder),
             filesByOwner |-> Object(j.filesByOwner),
             filesByYear |-> Object(j.filesByYear),
             largeFiles |-> j.largeFiles, oldFiles |-> j.oldFiles,
             sharedFiles |-> j.sharedFiles,
             duplicateCandidates |-> Object(j.duplicateCandidates),
             errors |-> j.errors ]

\* ------------------------------------------------------ duplicates report
\* .sort((a, b) => b[1].length - a[1].length) over the entries K of m; among
\* groups of equal length the script keeps the order of first appearance,
\* which the statistics map does not record: some order is taken
RECURSIVE SortByLengthDesc(_, _)
SortByLengthDesc(m, K) ==
  IF K = {} THEN <<>>
  ELSE LET k == CHOOSE x \in K : \A y \in K : Len(m[x]) >= Len(m[y])
       IN  <<k>> \o SortByLengthDesc(m, K \ {k})

\* generateDuplicatesReport with the filter files.length > 0
generateDuplicatesReport_Mutant(stats) ==
  LET dc  == stats.duplicateCandidates
      dup == Slice(SortByLengthDesc(dc, { k \in DOMAIN dc : Len(dc[k]) > 0 }),
                   MAX_DUPLICATE_GROUPS)
  IN  [ i \in 1..Len(dup) |->
          [ name |-> dc[dup[i]][1].name, size |-> dc[dup[i]][1].size,
            count |-> Len(dc[dup[i]]) ] ]

\* generateDuplicatesReport, lines 746-772: the rows written to the
\* Duplicates sheet (name and size of the first file of the group, number
\* of files in the group)
generateDuplicatesReport(stats) ==
  LET dc  == stats.duplicateCandidates
      dup == Slice(SortByLengthDesc(dc, { k \in DOMAIN dc : Len(dc[k]) > 1 }),
                   MAX_DUPLICATE_GROUPS)
  IN  [ i \in 1..Len(dup) |->
          [ name |-> dc[dup[i]][1].name, size |-> dc[dup[i]][1].size,
            count |-> Len(dc[dup[i]]) ] ]

\* --------------------------------------- optimized inventory: statistics
\* the statistics object of initializeStatsInSheet
FreshOptStats ==
  [ totalFiles |-> 0, totalSize |-> 0, filesByType |-> EmptyMap,
    filesByYear |-> EmptyMap, largeFiles |-> <<>>, oldFiles |-> <<>>,
    sharedFiles |-> <<>>, errors |-> 0 ]

\* extractFileDataOptimized: sharing defaults to 'PRIVATE'
extractFileDataOptimized(f) ==
  [ name |-> f.name, size |-> f.size, type |-> getFileType(f.name),
    ageInDays |-> f.age, year |-> 2025 - f.age,
    sharingAccess |-> IF f.sharing = "RAISES" THEN "PRIVATE" ELSE f.sharing ]

\* processFileOptimized, lines 183-192: the counters updated before the row
\* is appended to the file list
OptCount(stats, d) ==
  [stats EXCEPT
     !.totalFiles = @ + 1,
     !.totalSize = @ + d.size,
     !.filesByType = IF Cardinality(DOMAIN @) < MAX_FILE_TYPES \/ d.type \in DOMAIN @
                     THEN Incr(@, d.type) ELSE @,
     !.filesByYear = Incr(@, d.year)]

\* processFileOptimized, lines 197-230: the bounded lists, updated after it
OptLists(stats, d) ==
  [stats EXCEPT
     !.largeFiles = IF d.size > LARGE_FILE_THRESHOLD /\ Len(@) < LIST_CAP
                    THEN Slice(SortBySizeDesc(Append(@, [name |-> d.name, size |-> d.size])),
                               LIST_CAP)
                    ELSE @,
     !.oldFiles = IF d.ageInDays > OLD_FILE_THRESHOLD_DAYS /\ Len(@) < LIST_CAP
                  THEN Append(@, [name |-> d.name, ageInDays |-> d.ageInDays])
                  ELSE @,
     !.sharedFiles = IF d.sharingAccess # "PRIVATE" /\ Len(@) < LIST_CAP
                     THEN Append(@, [name |-> d.name, sharingAccess |-> d.sharingAccess])
                     ELSE @]

\* processFileOptimized: "late" is addToFileListSheetOptimized raising
processFileOptimized(stats, f) ==
  IF f.fail = "early" THEN [stats |-> stats, threw |-> TRUE]
  ELSE IF f.fail = "late"
  THEN [stats |-> OptCount(stats, extractFileDataOptimized(f)), threw |-> TRUE]
  ELSE [stats |-> OptLists(OptCount(stats, extractFileDataOptimized(f)),
                           extractFileDataOptimized(f)),
        threw |-> FALSE]

\* the for-loop of runOptimizedInventory, lines 104-119
RECURSIVE ProcessFilesOptimized(_, _)
ProcessFilesOptimized(stats, files) ==
  IF files = <<>> THEN stats
  ELSE LET r == processFileOptimized(stats, Head(files))
           s == IF r.threw THEN [r.stats EXCEPT !.errors = @ + 1] ELSE r.stats
       IN  ProcessFilesOptimized(s, Tail(files))

\* ------------------------------------------------------------------ state
VARIABLES
  listing,      \* the files of the drive, in the order the iterator returns them
  batchSize,    \* CONFIG.BATCH_SIZE
  props,        \* script properties: continuationToken, inventoryStats, autoMode
  triggers,     \* number of pending continueAutomaticInventory triggers
  status,       \* status cell (4,1) of the Overview sheet
  report,       \* statistics handed to generateFinalReports, <<>> before the first
  inv,          \* the executing invocation: position and local variables
  last,         \* how the previous invocation ended
  handed,       \* per file: times handed to processFileForInventory in this pass
  killed,       \* number of invocations killed by the host
  opt,          \* the optimized inventory (drive-inventory-optimized.js)
  scanListing,  \* the drive as the shared-files audit sees it
  scan,         \* the shared-files audit (shared-files-audit.js)
  other,        \* a second invocation executing while the first one is
  calc          \* what a function or script studied on its own was given and left

vars == <<listing, batchSize, props, triggers, status, report, inv, last, handed, killed, opt, scanListing, scan, other, calc>>

NoProps == [continuationToken |-> 0, inventoryStats |-> <<>>, autoMode |-> ""]

\* from is the local continuationToken of runInventoryBatch (line 123)
IdleInv ==
  [ pc |-> "idle", auto |-> FALSE, stats |-> FreshStats, from |-> 0, pos |-> 0,
    hasMore |-> FALSE, batches |-> 0, processed |-> 0, stopped |-> FALSE ]

\* the second invocation: the cursor it read, its statistics, its iterator
IdleOther ==
  [ pc |-> "idle", auto |-> FALSE, stats |-> FreshStats, from |-> 0, pos |-> 0,
    started |-> 0 ]

\* the second invocation has returned
OtherEnded == [IdleOther EXCEPT !.started = other.started]

\* no scoring function has been applied yet
NoCalc == [fn |-> "none"]

NotEnded == [end |-> "none", batches |-> 0, processed |-> 0]

Ended(how) == [end |-> how, batches |-> inv.batches, processed |-> inv.processed]

\* the optimized inventory between sessions: its continuationToken property,
\* its pending continueOptimizedInventory triggers, the statistics of the
\* executing session, the statistics the final reports were generated from,
\* whether the last session ended with an exception and whether the
\* Progress Tracking sheet holds an 'Error' row
IdleOpt ==
  [ pc |-> "idle", token |-> 0, triggers |-> 0, stats |-> FreshOptStats,
    report |-> <<>>, sessions |-> 0, raised |-> FALSE, error |-> FALSE ]

\* the shared-files audit: its sharedFilesContinuationToken property, the
\* totalFiles of its persisted statistics, its status cell and how many files
\* the iterator had returned when the status last changed
IdleScan ==
  [token |-> 0, totalFiles |-> 0, status |-> "", examined |-> 0, reported |-> 0]

\* getFilesToProcess: the while loop over the iterator, lines 243-251;
\* files are returned as their indices in the listing
RECURSIVE Collect(_, _, _, _)
Collect(L, pos, files, n) ==
  IF pos < Len(L) /\ Len(files) < n
  THEN Collect(L, pos + 1,
               IF L[pos + 1].incl THEN Append(files, pos + 1) ELSE files, n)
  ELSE [files |-> files, pos |-> pos]

getFilesToProcess(L, continuationToken, n) == Collect(L, continuationToken, <<>>, n)

FilesAt(L, idx) == [i \in 1..Len(idx) |-> L[idx[i]]]

\* the part of the state every specification starts from
InitCore ==
  /\ batchSize \in 1..MaxBatch
  /\ props = NoProps
  /\ triggers = 0
  /\ status = ""
  /\ report = <<>>
  /\ inv = IdleInv
  /\ last = NotEnded
  /\ handed = [i \in 1..Len(listing) |-> 0]
  /\ killed = 0
  /\ other = IdleOther
  /\ calc = NoCalc

Init ==
  /\ listing \in SeqsUpTo(FileKinds, MaxFiles)
  /\ InitCore
  /\ opt = IdleOpt
  /\ scanListing = <<>>
  /\ scan = IdleScan

\* ---------------------------------------------------------------- actions
\* resetInventory(), run from the menu between invocations
resetInventory ==
  /\ inv.pc = "idle"
  /\ props' = NoProps
  /\ UNCHANGED <<listing, batchSize, triggers, status, report, inv, last, handed, killed, opt, scanListing, scan, other, calc>>

\* inventoryDrive(): one batch, or the continuous loop when autoMode is 'true'
inventoryDrive ==
  /\ inv.pc = "idle"
  /\ inv' = [IdleInv EXCEPT !.pc = "batch", !.auto = (props.autoMode = "true")]
  /\ last' = NotEnded
  /\ UNCHANGED <<listing, batchSize, props, triggers, status, report, handed, killed, opt, scanListing, scan, other, calc>>

\* startAutomaticInventory with the slip of never calling resetInventory
startAutomaticInventory_Mutant ==
  /\ inv.pc = "idle"
  /\ props' = [props EXCEPT !.autoMode = "true"]
  /\ inv' = [IdleInv EXCEPT !.pc = "batch", !.auto = TRUE]
  /\ last' = NotEnded
  /\ UNCHANGED <<listing, batchSize, triggers, status, report, handed, killed, opt, scanListing, scan, other, calc>>

\* startAutomaticInventory(): reset unless a cursor is stored, then run
startAutomaticInventory ==
  /\ inv.pc = "idle"
  /\ props' = [(IF props.continuationToken = 0 THEN NoProps ELSE props)
                 EXCEPT !.autoMode = "true"]
  /\ inv' = [IdleInv EXCEPT !.pc = "batch", !.auto = TRUE]
  /\ last' = NotEnded
  /\ UNCHANGED <<listing, batchSize, triggers, status, report, handed, killed, opt, scanListing, scan, other, calc>>

\* continueAutomaticInventory with the slip of leaving out the autoMode test
continueAutomaticInventory_Mutant ==
  /\ inv.pc = "idle"
  /\ triggers > 0
  /\ triggers' = triggers - 1
  /\ inv' = [IdleInv EXCEPT !.pc = "batch", !.auto = TRUE]
  /\ last' = IF props.autoMode # "true"
             THEN [end |-> "disabled", batches |-> 0, processed |-> 0]
             ELSE NotEnded
  /\ UNCHANGED <<listing, batchSize, props, status, report, handed, killed, opt, scanListing, scan, other, calc>>

\* continueAutomaticInventory(): the one-minute trigger fires; with autoMode
\* other than 'true' it cancels the scheduled runs and returns (lines 907-911)
continueAutomaticInventory ==
  /\ inv.pc = "idle"
  /\ triggers > 0
  /\ IF props.autoMode # "true"
     THEN /\ triggers' = 0
          /\ last' = [end |-> "disabled", batches |-> 0, processed |-> 0]
          /\ UNCHANGED inv
     ELSE /\ triggers' = triggers - 1
          /\ inv' = [IdleInv EXCEPT !.pc = "batch", !.auto = TRUE]
          /\ last' = NotEnded
  /\ UNCHANGED <<listing, batchSize, props, status, report, handed, killed, opt, scanListing, scan, other, calc>>

\* stopAutomaticInventory with the slip of calling resetInventory
stopAutomaticInventory_Mutant ==
  /\ props' = [NoProps EXCEPT !.autoMode = "false"]
  /\ triggers' = 0
  /\ status' = "PAUSED"
  /\ inv' = IF inv.pc # "idle" /\ inv.auto THEN [inv EXCEPT !.stopped = TRUE] ELSE inv
  /\ UNCHANGED <<listing, batchSize, report, last, handed, killed, opt, scanListing, scan, other, calc>>

\* stopAutomaticInventory(), possibly while an invocation is executing
stopAutomaticInventory ==
  /\ props' = [props EXCEPT !.autoMode = "false"]
  /\ triggers' = 0
  /\ status' = "PAUSED"
  /\ inv' = IF inv.pc # "idle" /\ inv.auto THEN [inv EXCEPT !.stopped = TRUE] ELSE inv
  /\ UNCHANGED <<listing, batchSize, report, last, handed, killed, opt, scanListing, scan, other, calc>>

\* processedCount of runInventoryBatch, lines 159-168: the files of the page
\* whose processFileForInventory returned without raising
processedCount(files) ==
  Cardinality({ k \in 1..Len(files) : ~processFileForInventory(FreshStats, files[k]).threw })

\* runInventoryBatch(), lines 115-168: load the checkpoint, list a page and
\* process it; an empty page completes the run
runInventoryBatch ==
  /\ inv.pc = "batch"
  /\ LET stats == initializeStats(props.inventoryStats)
         page  == getFilesToProcess(listing, props.continuationToken, batchSize)
         fresh == [i \in 1..Len(listing) |->
                     IF props.continuationToken = 0 THEN 0 ELSE handed[i]]
     IN  IF page.files = <<>>
         THEN /\ report' = <<stats>>
              /\ status' = "COMPLETE"
              /\ props' = NoProps
              /\ triggers' = 0
              /\ handed' = fresh
              /\ inv' = [inv EXCEPT !.pc = "loop", !.stats = stats,
                                    !.from = props.continuationToken, !.pos = page.pos,
                                    !.hasMore = FALSE, !.batches = @ + 1]
         ELSE /\ status' = "RUNNING"
              /\ handed' = [i \in 1..Len(listing) |->
                              IF \E k \in 1..Len(page.files) : page.files[k] = i
                              THEN Min(fresh[i] + 1, HandedCap) ELSE fresh[i]]
              /\ inv' = [inv EXCEPT !.pc = "save",
                                    !.stats = ProcessFiles(stats, FilesAt(listing, page.files)),
                                    !.from = props.continuationToken,
                                    !.pos = page.pos,
                                    !.batches = @ + 1,
                                    !.processed = @ + processedCount(FilesAt(listing, page.files))]
              /\ UNCHANGED <<props, triggers, report>>
  /\ UNCHANGED <<listing, batchSize, last, killed, opt, scanListing, scan, other, calc>>

\* the listing failure with the slip of deleting the checkpoint on the way out
ListingRaises_Mutant ==
  /\ inv.pc = "batch"
  /\ status' = "RUNNING"
  /\ last' = Ended("listfail")
  /\ inv' = IdleInv
  /\ props' = [NoProps EXCEPT !.autoMode = props.autoMode]
  /\ UNCHANGED <<listing, batchSize, triggers, report, handed, killed, opt, scanListing, scan, other, calc>>

\* getFilesToProcess raises (rate limit, service error): nothing catches it
ListingRaises ==
  /\ inv.pc = "batch"
  /\ status' = "RUNNING"
  /\ last' = Ended("listfail")
  /\ inv' = IdleInv
  /\ UNCHANGED <<listing, batchSize, props, triggers, report, handed, killed, opt, scanListing, scan, other, calc>>

\* line 171-174: setProperty('inventoryStats', ...), then updateOverviewSheet
\* clears the Overview sheet, the status cell included
SaveStats ==
  /\ inv.pc = "save"
  /\ Records(inv.stats) <= QuotaRecords
  /\ props' = [props EXCEPT !.inventoryStats = <<JsonStringify(inv.stats)>>]
  /\ status' = ""
  /\ inv' = [inv EXCEPT !.pc = "cursor"]
  /\ UNCHANGED <<listing, batchSize, triggers, report, last, handed, killed, opt, scanListing, scan, other, calc>>

\* line 171: the value exceeds the property size limit and setProperty raises
SaveRaises ==
  /\ inv.pc = "save"
  /\ Records(inv.stats) > QuotaRecords
  /\ last' = Ended("savefail")
  /\ inv' = IdleInv
  /\ UNCHANGED <<listing, batchSize, props, triggers, status, report, handed, killed, opt, scanListing, scan, other, calc>>

\* lines 179-198 with the slip of storing the cursor whatever hasNext says
SaveCursor_Mutant ==
  /\ inv.pc = "cursor"
  /\ props' = [props EXCEPT !.continuationToken = inv.pos]
  /\ inv' = [inv EXCEPT !.pc = "loop", !.hasMore = TRUE]
  /\ UNCHANGED <<status, report>>
  /\ UNCHANGED <<listing, batchSize, triggers, last, handed, killed, opt, scanListing, scan, other, calc>>

\* lines 179-198: store the cursor, or finish the run
SaveCursor ==
  /\ inv.pc = "cursor"
  /\ IF inv.pos < Len(listing)
     THEN /\ props' = [props EXCEPT !.continuationToken = inv.pos]
          /\ inv' = [inv EXCEPT !.pc = "loop", !.hasMore = TRUE]
          /\ UNCHANGED <<status, report>>
     ELSE /\ report' = <<inv.stats>>
          /\ status' = "COMPLETE"
          /\ props' = NoProps
          /\ inv' = [inv EXCEPT !.pc = "loop", !.hasMore = FALSE]
  /\ UNCHANGED <<listing, batchSize, triggers, last, handed, killed, opt, scanListing, scan, other, calc>>

\* the return with the slip of leaving out cancelScheduledRuns (line 103)
Return_Mutant ==
  /\ inv.pc = "loop"
  /\ ~inv.auto \/ ~inv.hasMore
  /\ last' = Ended(IF inv.hasMore THEN "batch" ELSE "complete")
  /\ inv' = IdleInv
  /\ UNCHANGED <<listing, batchSize, props, triggers, status, report, handed, killed, opt, scanListing, scan, other, calc>>

\* runInventoryBatch returns to inventoryDrive, or to the loop of
\* runInventoryContinuously with hasMore false (lines 99-104)
Return ==
  /\ inv.pc = "loop"
  /\ ~inv.auto \/ ~inv.hasMore
  /\ triggers' = IF inv.auto THEN 0 ELSE triggers
  /\ last' = Ended(IF inv.hasMore THEN "batch" ELSE "complete")
  /\ inv' = IdleInv
  /\ UNCHANGED <<listing, batchSize, props, status, report, handed, killed, opt, scanListing, scan, other, calc>>

\* the time check with the slip of returning without scheduleNextRun
TimeLimit_Mutant ==
  /\ inv.pc = "loop"
  /\ inv.auto /\ inv.hasMore
  /\ last' = Ended("timelimit")
  /\ inv' = IdleInv
  /\ UNCHANGED <<listing, batchSize, props, triggers, status, report, handed, killed, opt, scanListing, scan, other, calc>>

\* runInventoryContinuously, lines 84-92: the time budget is used up
TimeLimit ==
  /\ inv.pc = "loop"
  /\ inv.auto /\ inv.hasMore
  /\ triggers' = 1
  /\ last' = Ended("timelimit")
  /\ inv' = IdleInv
  /\ UNCHANGED <<listing, batchSize, props, status, report, handed, killed, opt, scanListing, scan, other, calc>>

\* runInventoryContinuously, lines 94-108: next iteration of the loop
NextBatch ==
  /\ inv.pc = "loop"
  /\ inv.auto /\ inv.hasMore
  /\ inv' = [inv EXCEPT !.pc = "batch"]
  /\ UNCHANGED <<listing, batchSize, props, triggers, status, report, last, handed, killed, opt, scanListing, scan, other, calc>>

\* the host kills the executing invocation
Kill ==
  /\ inv.pc # "idle"
  /\ killed < MaxKills
  /\ killed' = killed + 1
  /\ last' = Ended("killed")
  /\ inv' = IdleInv
  /\ UNCHANGED <<listing, batchSize, props, triggers, status, report, handed, opt, scanListing, scan, other, calc>>

Next ==
  \/ resetInventory
  \/ inventoryDrive
  \/ startAutomaticInventory
  \/ continueAutomaticInventory
  \/ stopAutomaticInventory
  \/ runInventoryBatch
  \/ ListingRaises
  \/ SaveStats
  \/ SaveRaises
  \/ SaveCursor
  \/ Return
  \/ TimeLimit
  \/ NextBatch

Spec == Init /\ [][Next]_vars

\* the same program on a host that may kill an invocation at any instant
NextKill == Next \/ Kill

SpecKill == Init /\ [][NextKill]_vars

\* ------------------------------------------------- automatic mode, fair
\* An automatic run left to itself: the user only starts it.  The steps of
\* an executing invocation are taken (the host runs the script) and a
\* pending trigger fires (the host's trigger service); when the time check
\* finds the budget used up is left open.
HostStep ==
  \/ continueAutomaticInventory
  \/ runInventoryBatch
  \/ ListingRaises
  \/ SaveStats
  \/ SaveRaises
  \/ SaveCursor
  \/ Return
  \/ TimeLimit
  \/ NextBatch

NextLive == startAutomaticInventory \/ HostStep

\* the drives of the fair runs: a large old shared file and a file that
\* shouldIncludeFile rejects
LiveKinds == { f \in FileKinds : f.name = "t" \/ (f.name = "c" /\ f.size = 5) }

InitLive ==
  /\ listing \in SeqsUpTo(LiveKinds, MaxFiles)
  /\ InitCore
  /\ opt = IdleOpt
  /\ scanListing = <<>>
  /\ scan = IdleScan

SpecLive == InitLive /\ [][NextLive]_vars /\ WF_vars(HostStep)

\* ------------------------------------------------------------ test batch
\* testInventory(), lines 1307-1377: resetInventory, then an inline batch of
\* TEST_BATCH_SIZE files inside try/catch; the statistics are saved, the
\* cursor only if the iterator has more, and nothing is deleted afterwards
testInventory ==
  /\ inv.pc = "idle"
  /\ LET page  == getFilesToProcess(listing, 0, TEST_BATCH_SIZE)
         stats == ProcessFiles(FreshStats, FilesAt(listing, page.files))
     IN  IF page.files = <<>>
         THEN /\ props' = NoProps
              /\ last' = [end |-> "test", batches |-> 0, processed |-> 0]
              /\ UNCHANGED <<status, handed>>
         ELSE /\ handed' = [i \in 1..Len(listing) |->
                              IF \E k \in 1..Len(page.files) : page.files[k] = i
                              THEN 1 ELSE 0]
              /\ last' = [end |-> "test", batches |-> 1, processed |-> Len(page.files)]
              /\ IF Records(stats) <= QuotaRecords
                 THEN /\ props' = [ continuationToken |->
                                      IF page.pos < Len(listing) THEN page.pos ELSE 0,
                                    inventoryStats |-> <<JsonStringify(stats)>>,
                                    autoMode |-> "" ]
                      /\ status' = ""
                 ELSE /\ props' = NoProps
                      /\ UNCHANGED status
  /\ UNCHANGED <<listing, batchSize, triggers, report, inv, killed, opt, scanListing, scan, other, calc>>

NextTest == Next \/ testInventory

\* the drives of the test runs: a small private file, a file whose
\* getSharingAccess raises, a large old shared file and a file that
\* shouldIncludeFile rejects
TestKinds ==
  { f \in FileKinds : \/ f.name \in {"b", "t"}
                      \/ (f.name = "a" /\ f.age = 0)
                      \/ (f.name = "c" /\ f.size = 5) }

InitTest ==
  /\ listing \in SeqsUpTo(TestKinds, MaxFiles)
  /\ InitCore
  /\ opt = IdleOpt
  /\ scanListing = <<>>
  /\ scan = IdleScan

SpecTest == InitTest /\ [][NextTest]_vars

\* the operations of Next on the drives of the test runs
SpecStop == InitTest /\ [][Next]_vars

\* ------------------------------------------- two overlapping invocations
\* Nothing in the script takes a lock (no LockService call): a second
\* invocation may be started from the editor, the menu or a trigger while
\* the first one is executing.  The second one is followed for one batch.

\* inventoryDrive() entered while another invocation is executing
overlappingInventoryDrive ==
  /\ inv.pc # "idle"
  /\ other.pc = "idle"
  /\ other.started < MaxOverlaps
  /\ other' = [IdleOther EXCEPT !.pc = "batch", !.auto = (props.autoMode = "true"),
                                !.started = other.started + 1]
  /\ UNCHANGED <<listing, batchSize, props, triggers, status, report, inv, last, handed, killed, opt, scanListing, scan, calc>>

\* runInventoryBatch() of the second invocation, lines 115-168
overlappingRunInventoryBatch ==
  /\ other.pc = "batch"
  /\ LET stats == initializeStats(props.inventoryStats)
         page  == getFilesToProcess(listing, props.continuationToken, batchSize)
     IN  IF page.files = <<>>
         THEN /\ report' = <<stats>>
              /\ status' = "COMPLETE"
              /\ props' = NoProps
              /\ triggers' = 0
              /\ other' = OtherEnded
              /\ UNCHANGED handed
         ELSE /\ status' = "RUNNING"
              /\ handed' = [i \in 1..Len(listing) |->
                              IF \E k \in 1..Len(page.files) : page.files[k] = i
                              THEN Min(handed[i] + 1, HandedCap) ELSE handed[i]]
              /\ other' = [other EXCEPT !.pc = "save",
                                        !.stats = ProcessFiles(stats, FilesAt(listing, page.files)),
                                        !.from = props.continuationToken,
                                        !.pos = page.pos]
              /\ UNCHANGED <<props, triggers, report>>
  /\ UNCHANGED <<listing, batchSize, inv, last, killed, opt, scanListing, scan, calc>>

\* lines 171-174 of the second invocation
overlappingSaveStats ==
  /\ other.pc = "save"
  /\ IF Records(other.stats) <= QuotaRecords
     THEN /\ props' = [props EXCEPT !.inventoryStats = <<JsonStringify(other.stats)>>]
          /\ status' = ""
          /\ other' = [other EXCEPT !.pc = "cursor"]
     ELSE /\ other' = OtherEnded
          /\ UNCHANGED <<props, status>>
  /\ UNCHANGED <<listing, batchSize, triggers, report, inv, last, handed, killed, opt, scanListing, scan, calc>>

\* lines 179-198 of the second invocation, and its return: in continuous
\* mode it ends on the time check (scheduleNextRun) or on completion
\* (cancelScheduledRuns)
overlappingSaveCursor ==
  /\ other.pc = "cursor"
  /\ IF other.pos < Len(listing)
     THEN /\ props' = [props EXCEPT !.continuationToken = other.pos]
          /\ triggers' = IF other.auto THEN 1 ELSE triggers
          /\ UNCHANGED <<status, report>>
     ELSE /\ report' = <<other.stats>>
          /\ status' = "COMPLETE"
          /\ props' = NoProps
          /\ triggers' = IF other.auto THEN 0 ELSE triggers
  /\ other' = OtherEnded
  /\ UNCHANGED <<listing, batchSize, inv, last, handed, killed, opt, scanListing, scan, calc>>

NextOverlap ==
  \/ startAutomaticInventory
  \/ continueAutomaticInventory
  \/ runInventoryBatch
  \/ SaveStats
  \/ SaveRaises
  \/ SaveCursor
  \/ Return
  \/ TimeLimit
  \/ NextBatch
  \/ overlappingInventoryDrive
  \/ overlappingRunInventoryBatch
  \/ overlappingSaveStats
  \/ overlappingSaveCursor

SpecOverlap == Init /\ [][NextOverlap]_vars

\* ---------------------------------------------------- optimized inventory
\* getFilesToProcess of the optimized script: the next batchSize items
OptPage(L, token, n) == SubSeq(L, token + 1, Min(token + n, Len(L)))

\* inventoryDriveLarge(): resetInventoryProgress, then runOptimizedInventory
\* up to its loop (initializeStatsInSheet gives zeroed statistics)
inventoryDriveLarge ==
  /\ opt.pc = "idle"
  /\ opt' = [opt EXCEPT !.pc = "run", !.token = 0, !.triggers = 0,
                        !.stats = FreshOptStats, !.sessions = 1,
                        !.raised = FALSE, !.error = FALSE]
  /\ UNCHANGED <<listing, batchSize, props, triggers, status, report, inv, last,
                 handed, killed, scanListing, scan, other, calc>>

\* continueOptimizedInventory(): the trigger fires, runOptimizedInventory
\* up to its loop
continueOptimizedInventory ==
  /\ opt.pc = "idle"
  /\ opt.triggers > 0
  /\ opt' = [opt EXCEPT !.pc = "run", !.triggers = @ - 1,
                        !.stats = FreshOptStats, !.sessions = @ + 1,
                        !.raised = FALSE, !.error = FALSE]
  /\ UNCHANGED <<listing, batchSize, props, triggers, status, report, inv, last,
                 handed, killed, scanListing, scan, other, calc>>

\* one iteration of the loop of runOptimizedInventory, lines 86-149, and the
\* final reports (lines 152-166) when the loop is left
runOptimizedInventory ==
  /\ opt.pc = "run"
  /\ LET files == OptPage(listing, opt.token, batchSize)
         pos   == opt.token + Len(files)
         stats == ProcessFilesOptimized(opt.stats, files)
     IN  IF files = <<>>
         THEN opt' = [opt EXCEPT !.pc = "idle", !.report = <<opt.stats>>]
         ELSE IF pos < Len(listing)
         THEN opt' = [opt EXCEPT !.pc = "check", !.stats = stats, !.token = pos]
         ELSE opt' = [opt EXCEPT !.pc = "idle", !.stats = stats, !.token = 0,
                                 !.report = <<stats>>]
  /\ UNCHANGED <<listing, batchSize, props, triggers, status, report, inv, last,
                 handed, killed, scanListing, scan, other, calc>>

\* lines 136-141: more than 300 seconds have elapsed; scheduleNextRun
OptTimeLimit ==
  /\ opt.pc = "check"
  /\ opt' = [opt EXCEPT !.pc = "idle", !.triggers = @ + 1]
  /\ UNCHANGED <<listing, batchSize, props, triggers, status, report, inv, last,
                 handed, killed, scanListing, scan, other, calc>>

\* lines 143-144: the loop goes on
OptNextBatch ==
  /\ opt.pc = "check"
  /\ opt' = [opt EXCEPT !.pc = "run"]
  /\ UNCHANGED <<listing, batchSize, props, triggers, status, report, inv, last,
                 handed, killed, scanListing, scan, other, calc>>

\* runOptimizedInventory raises in its loop (getFilesToProcess, a sheet
\* update or setProperty fails on a quota): the catch of inventoryDriveLarge
\* (lines 51-61) calls saveErrorInfo; a session started by
\* continueOptimizedInventory (lines 605-608) has no catch
OptRaises ==
  /\ opt.pc = "run"
  /\ opt' = [opt EXCEPT !.pc = "idle", !.raised = TRUE, !.error = (opt.sessions = 1)]
  /\ UNCHANGED <<listing, batchSize, props, triggers, status, report, inv, last,
                 handed, killed, scanListing, scan, other, calc>>

NextOpt ==
  \/ inventoryDriveLarge
  \/ continueOptimizedInventory
  \/ runOptimizedInventory
  \/ OptRaises
  \/ OptTimeLimit
  \/ OptNextBatch

SpecOpt == Init /\ [][NextOpt]_vars

\* ----------------------------------------------------- shared-files audit
\* getSharedFilesToProcess, lines 181-189: files are examined until batchSize
\* shared ones are found, maxCheck files were examined or the iterator ends;
\* scanListing[i] is isSharedFile of the i-th file
RECURSIVE ScanCollect(_, _, _, _, _, _)
ScanCollect(L, pos, count, checkedCount, n, maxCheck) ==
  IF pos < Len(L) /\ count < n /\ checkedCount < maxCheck
  THEN ScanCollect(L, pos + 1, IF L[pos + 1] THEN count + 1 ELSE count,
                   checkedCount + 1, n, maxCheck)
  ELSE [count |-> count, pos |-> pos]

getSharedFilesToProcess(L, continuationToken, n) ==
  ScanCollect(L, continuationToken, 0, 0, n, n * MAX_CHECK_FACTOR)

\* runSharedFilesAuditBatch(), lines 100-160
runSharedFilesAuditBatch ==
  /\ scan.status # "COMPLETE"
  /\ LET page == getSharedFilesToProcess(scanListing, scan.token, batchSize)
     IN  IF page.count = 0 \/ ~(page.pos < Len(scanListing))
         THEN scan' = [ token |-> 0, totalFiles |-> 0, status |-> "COMPLETE",
                        examined |-> page.pos,
                        reported |-> scan.totalFiles + page.count ]
         ELSE scan' = [ token |-> page.pos, totalFiles |-> scan.totalFiles + page.count,
                        status |-> "", examined |-> page.pos, reported |-> 0 ]
  /\ UNCHANGED <<listing, batchSize, props, triggers, status, report, inv, last,
                 handed, killed, opt, scanListing, other, calc>>

\* resetSharedFilesAudit(), then a new audit may start
resetSharedFilesAudit ==
  /\ scan' = [scan EXCEPT !.token = 0, !.totalFiles = 0, !.status = ""]
  /\ UNCHANGED <<listing, batchSize, props, triggers, status, report, inv, last,
                 handed, killed, opt, scanListing, other, calc>>

InitScan ==
  /\ listing = <<>>
  /\ InitCore
  /\ opt = IdleOpt
  /\ scanListing \in SeqsUpTo(BOOLEAN, MaxScanFiles)
  /\ scan = IdleScan

NextScan ==
  \/ runSharedFilesAuditBatch
  \/ resetSharedFilesAudit

SpecScan == InitScan /\ [][NextScan]_vars

\* -------------------------------------------------------- score functions
\* Strings that the score functions search are sequences of characters.
UpperCase ==
  << "A", "B", "C", "D", "E", "F", "G", "H", "I", "J", "K", "L", "M",
     "N", "O", "P", "Q", "R", "S", "T", "U", "V", "W", "X", "Y", "Z" >>
LowerCase ==
  << "a", "b", "c", "d", "e", "f", "g", "h", "i", "j", "k", "l", "m",
     "n", "o", "p", "q", "r", "s", "t", "u", "v", "w", "x", "y", "z" >>

\* String.prototype.toLowerCase
toLowerCase(str) ==
  [ i \in 1..Len(str) |->
      IF \E k \in 1..26 : UpperCase[k] = str[i]
      THEN LowerCase[CHOOSE k \in 1..26 : UpperCase[k] = str[i]]
      ELSE str[i] ]

\* String.prototype.includes
includes(str, sub) ==
  \E i \in 0..(Len(str) - Len(sub)) : SubSeq(str, i + 1, i + Len(sub)) = sub

\* one megabyte, in bytes
MB == 1024 * 1024

\* what getFileType of the large-files finder and of the audit returns
TypeArchive == << "A", "r", "c", "h", "i", "v", "e" >>
TypeLog     == << "L", "O", "G" >>
TypeVideo   == << "V", "i", "d", "e", "o" >>
TypePdf     == << "P", "D", "F" >>

\* part_001, line 400
suspiciousTypes ==
  { << "z", "i", "p" >>, << "r", "a", "r" >>, << "t", "a", "r" >>,
    << "b", "a", "c", "k", "u", "p" >>, << "t", "m", "p" >>, << "l", "o", "g" >> }

\* calculateCleanupScore with the two middle age tiers exchanged
calculateCleanupScore_Mutant(fileData) ==
  LET age  == IF fileData.ageInDays > 730 THEN 40
              ELSE IF fileData.ageInDays > 365 THEN 20
              ELSE IF fileData.ageInDays > 180 THEN 30
              ELSE IF fileData.ageInDays > 90 THEN 10
              ELSE 0
      size == IF fileData.size > 1000 * MB THEN 30
              ELSE IF fileData.size > 500 * MB THEN 25
              ELSE IF fileData.size > 100 * MB THEN 20
              ELSE IF fileData.size > 50 * MB THEN 15
              ELSE 10
      fileType == toLowerCase(fileData.type)
      type == IF \E t \in suspiciousTypes : includes(fileType, t) THEN 20
              ELSE IF includes(fileType, << "v", "i", "d", "e", "o" >>)
                      \/ includes(fileType, << "a", "u", "d", "i", "o" >>) THEN 10
              ELSE 0
      sharing == IF fileData.sharingAccess = "Private" THEN 10 ELSE 0
  IN  Min(age + size + type + sharing, 100)

\* calculateCleanupScore, part_001 lines 382-414; sizeInMB > n is
\* size > n * MB on the byte count
calculateCleanupScore(fileData) ==
  LET age  == IF fileData.ageInDays > 730 THEN 40
              ELSE IF fileData.ageInDays > 365 THEN 30
              ELSE IF fileData.ageInDays > 180 THEN 20
              ELSE IF fileData.ageInDays > 90 THEN 10
              ELSE 0
      size == IF fileData.size > 1000 * MB THEN 30
              ELSE IF fileData.size > 500 * MB THEN 25
              ELSE IF fileData.size > 100 * MB THEN 20
              ELSE IF fileData.size > 50 * MB THEN 15
              ELSE 10
      fileType == toLowerCase(fileData.type)
      type == IF \E t \in suspiciousTypes : includes(fileType, t) THEN 20
              ELSE IF includes(fileType, << "v", "i", "d", "e", "o" >>)
                      \/ includes(fileType, << "a", "u", "d", "i", "o" >>) THEN 10
              ELSE 0
      sharing == IF fileData.sharingAccess = "Private" THEN 10 ELSE 0
  IN  Min(age + size + type + sharing, 100)

\* the records of large files that are scored: ages and sizes on both sides
\* of every tier
CleanupInputs ==
  [ ageInDays : {0, 90, 91, 180, 181, 365, 366, 730, 731},
    size : { 10 * MB, 50 * MB, 50 * MB + 1, 100 * MB, 100 * MB + 1,
             500 * MB, 500 * MB + 1, 1000 * MB, 1000 * MB + 1 },
    type : {TypeArchive, TypeLog, TypeVideo, TypePdf},
    sharingAccess : {"Private", "PRIVATE", "ANYONE"} ]

\* shared-files-audit.js, line 412
sensitiveTypes ==
  { << "p", "d", "f" >>, << "d", "o", "c" >>, << "d", "o", "c", "x" >>,
    << "x", "l", "s" >>, << "x", "l", "s", "x" >>, << "c", "s", "v" >> }

\* extractSharedFileData, lines 336-337: the flags derived from the access
isPublic(fileData) == fileData.sharingAccess \in {"ANYONE", "ANYONE_WITH_LINK"}
isDomainShared(fileData) == fileData.sharingAccess \in {"DOMAIN", "DOMAIN_WITH_LINK"}

\* assessSecurityRisk, shared-files-audit.js lines 380-427.
\*   keywordHits     : number of CONFIG.HIGH_RISK_KEYWORDS that the name or
\*                     the description includes (each adds 5 in the forEach)
\*   externalDomains : fileData.externalDomains.length
assessSecurityRisk(fileData) ==
  LET access     == IF isPublic(fileData) THEN 40
                    ELSE IF isDomainShared(fileData) THEN 20
                    ELSE IF fileData.externalDomains > 0 THEN 25
                    ELSE 0
      permission == IF fileData.sharingPermission = "EDIT" /\ isPublic(fileData) THEN 20
                    ELSE IF fileData.sharingPermission = "EDIT" THEN 10
                    ELSE 0
      capped     == Min(access + permission + 5 * fileData.keywordHits, 25)
      type       == IF toLowerCase(fileData.type) \in sensitiveTypes THEN 10 ELSE 0
      external   == IF fileData.externalDomains > 5 THEN 15
                    ELSE IF fileData.externalDomains > 2 THEN 10
                    ELSE IF fileData.externalDomains > 0 THEN 5
                    ELSE 0
  IN  Min(capped + type + external, 100)

\* the records of shared files that are scored (CONFIG.HIGH_RISK_KEYWORDS has
\* 20 entries)
RiskInputs ==
  [ sharingAccess : {"PRIVATE", "DOMAIN", "ANYONE"},
    sharingPermission : {"VIEW", "EDIT"},
    keywordHits : {0, 1, 5, 6, 20},
    externalDomains : {0, 1, 3, 6},
    type : {TypePdf, TypeVideo} ]

\* processLargeFile scores two large files that differ in age only or in
\* size only
scoreLargeFiles ==
  /\ calc = NoCalc
  /\ \E a \in CleanupInputs, b \in CleanupInputs :
       /\ a.type = b.type /\ a.sharingAccess = b.sharingAccess
       /\ a.ageInDays = b.ageInDays \/ a.size = b.size
       /\ calc' = [ fn |-> "calculateCleanupScore", a |-> a, b |-> b,
                    scoreA |-> calculateCleanupScore(a),
                    scoreB |-> calculateCleanupScore(b) ]
  /\ UNCHANGED <<listing, batchSize, props, triggers, status, report, inv, last, handed, killed, opt, scanListing, scan, other>>

\* processSharedFile scores two shared files that differ in how they are
\* shared only
scoreSharedFiles ==
  /\ calc = NoCalc
  /\ \E a \in RiskInputs, b \in RiskInputs :
       /\ a.type = b.type /\ a.keywordHits = b.keywordHits
       /\ a.sharingPermission = b.sharingPermission
       /\ calc' = [ fn |-> "assessSecurityRisk", a |-> a, b |-> b,
                    scoreA |-> assessSecurityRisk(a),
                    scoreB |-> assessSecurityRisk(b) ]
  /\ UNCHANGED <<listing, batchSize, props, triggers, status, report, inv, last, handed, killed, opt, scanListing, scan, other>>

InitScore ==
  /\ listing = <<>>
  /\ InitCore
  /\ opt = IdleOpt
  /\ scanListing = <<>>
  /\ scan = IdleScan

NextScore ==
  \/ scoreLargeFiles
  \/ scoreSharedFiles

SpecScore == InitScore /\ [][NextScore]_vars

\* ------------------------------------------------------------- file types
\* getFileType (drive-inventory-complete.js, lines 453-494) and
\* getFileTypeSimple (drive-inventory-optimized.js, lines 284-303) on file
\* names and mime types that are sequences of characters.  A value of the
\* script is a string (kind "string", its characters in chars) or an object
\* that is not a string (kind "function" or "object").

\* longest name built from NameAlphabet
MaxNameLen == 3

Str(chars) == [kind |-> "string", chars |-> chars]

\* String.prototype.toUpperCase
toUpperCase(str) ==
  [ i \in 1..Len(str) |->
      IF \E k \in 1..26 : LowerCase[k] = str[i]
      THEN UpperCase[CHOOSE k \in 1..26 : LowerCase[k] = str[i]]
      ELSE str[i] ]

\* String.prototype.charAt: the empty string when there is no such character
charAt(str, index) ==
  IF index + 1 \in 1..Len(str) THEN << str[index + 1] >> ELSE << >>

\* String.prototype.startsWith
startsWith(str, prefix) ==
  Len(str) >= Len(prefix) /\ SubSeq(str, 1, Len(prefix)) = prefix

\* fileName.split('.').pop(): what follows the last '.', the whole name
\* when it has none
LastSegment(fileName) ==
  LET dots == { i \in 1..Len(fileName) : fileName[i] = "." }
  IN  IF dots = {} THEN fileName
      ELSE SubSeq(fileName, (CHOOSE i \in dots : \A j \in dots : j <= i) + 1, Len(fileName))

GoogleAppsPrefix == << "a", "p", "p", "l", "i", "c", "a", "t", "i", "o", "n", "/", "v", "n", "d", ".", "g", "o", "o", "g", "l", "e", "-", "a", "p", "p", "s", "." >>

\* the own properties of typeMap, drive-inventory-complete.js lines 463-491
typeMap ==
  { <<<< "d", "o", "c" >>, << "W", "o", "r", "d", " ", "D", "o", "c", "u", "m", "e", "n", "t" >>>>,
    <<<< "d", "o", "c", "x" >>, << "W", "o", "r", "d", " ", "D", "o", "c", "u", "m", "e", "n", "t" >>>>,
    <<<< "p", "d", "f" >>, << "P", "D", "F" >>>>,
    <<<< "t", "x", "t" >>, << "T", "e", "x", "t", " ", "F", "i", "l", "e" >>>>,
    <<<< "r", "t", "f" >>, << "R", "i", "c", "h", " ", "T", "e", "x", "t" >>>>,
    <<<< "x", "l", "s" >>, << "E", "x", "c", "e", "l" >>>>,
    <<<< "x", "l", "s", "x" >>, << "E", "x", "c", "e", "l" >>>>,
    <<<< "c", "s", "v" >>, << "C", "S", "V" >>>>,
    <<<< "p", "p", "t" >>, << "P", "o", "w", "e", "r", "P", "o", "i", "n", "t" >>>>,
    <<<< "p", "p", "t", "x" >>, << "P", "o", "w", "e", "r", "P", "o", "i", "n", "t" >>>>,
    <<<< "j", "p", "g" >>, << "I", "m", "a", "g", "e" >>>>,
    <<<< "j", "p", "e", "g" >>, << "I", "m", "a", "g", "e" >>>>,
    <<<< "p", "n", "g" >>, << "I", "m", "a", "g", "e" >>>>,
    <<<< "g", "i", "f" >>, << "I", "m", "a", "g", "e" >>>>,
    <<<< "s", "v", "g" >>, << "I", "m", "a", "g", "e" >>>>,
    <<<< "b", "m", "p" >>, << "I", "m", "a", "g", "e" >>>>,
    <<<< "m", "p", "4" >>, << "V", "i", "d", "e", "o" >>>>,
    <<<< "a", "v", "i" >>, << "V", "i", "d", "e", "o" >>>>,
    <<<< "m", "o", "v" >>, << "V", "i", "d", "e", "o" >>>>,
    <<<< "w", "m", "v" >>, << "V", "i", "d", "e", "o" >>>>,
    <<<< "f", "l", "v" >>, << "V", "i", "d", "e", "o" >>>>,
    <<<< "m", "k", "v" >>, << "V", "i", "d", "e", "o" >>>>,
    <<<< "m", "p", "3" >>, << "A", "u", "d", "i", "o" >>>>,
    <<<< "w", "a", "v" >>, << "A", "u", "d", "i", "o" >>>>,
    <<<< "f", "l", "a", "c" >>, << "A", "u", "d", "i", "o" >>>>,
    <<<< "z", "i", "p" >>, << "A", "r", "c", "h", "i", "v", "e" >>>>,
    <<<< "r", "a", "r" >>, << "A", "r", "c", "h", "i", "v", "e" >>>>,
    <<<< "7", "z" >>, << "A", "r", "c", "h", "i", "v", "e" >>>>,
    <<<< "j", "s" >>, << "C", "o", "d", "e" >>>>,
    <<<< "h", "t", "m", "l" >>, << "C", "o", "d", "e" >>>>,
    <<<< "c", "s", "s" >>, << "C", "o", "d", "e" >>>>,
    <<<< "p", "y" >>, << "C", "o", "d", "e" >>>>,
    <<<< "j", "a", "v", "a" >>, << "C", "o", "d", "e" >>>>,
    <<<< "c", "p", "p" >>, << "C", "o", "d", "e" >>>> }

\* the own properties of typeMap, drive-inventory-optimized.js lines 292-300
typeMapSimple ==
  { <<<< "p", "d", "f" >>, << "P", "D", "F" >>>>,
    <<<< "d", "o", "c" >>, << "W", "o", "r", "d" >>>>,
    <<<< "d", "o", "c", "x" >>, << "W", "o", "r", "d" >>>>,
    <<<< "t", "x", "t" >>, << "T", "e", "x", "t" >>>>,
    <<<< "x", "l", "s" >>, << "E", "x", "c", "e", "l" >>>>,
    <<<< "x", "l", "s", "x" >>, << "E", "x", "c", "e", "l" >>>>,
    <<<< "c", "s", "v" >>, << "C", "S", "V" >>>>,
    <<<< "p", "p", "t" >>, << "P", "o", "w", "e", "r", "P", "o", "i", "n", "t" >>>>,
    <<<< "p", "p", "t", "x" >>, << "P", "o", "w", "e", "r", "P", "o", "i", "n", "t" >>>>,
    <<<< "j", "p", "g" >>, << "I", "m", "a", "g", "e" >>>>,
    <<<< "j", "p", "e", "g" >>, << "I", "m", "a", "g", "e" >>>>,
    <<<< "p", "n", "g" >>, << "I", "m", "a", "g", "e" >>>>,
    <<<< "g", "i", "f" >>, << "I", "m", "a", "g", "e" >>>>,
    <<<< "m", "p", "4" >>, << "V", "i", "d", "e", "o" >>>>,
    <<<< "a", "v", "i" >>, << "V", "i", "d", "e", "o" >>>>,
    <<<< "m", "o", "v" >>, << "V", "i", "d", "e", "o" >>>>,
    <<<< "m", "p", "3" >>, << "A", "u", "d", "i", "o" >>>>,
    <<<< "w", "a", "v" >>, << "A", "u", "d", "i", "o" >>>>,
    <<<< "z", "i", "p" >>, << "A", "r", "c", "h", "i", "v", "e" >>>>,
    <<<< "r", "a", "r" >>, << "A", "r", "c", "h", "i", "v", "e" >>>> }

\* typeMap is an object literal: a key that is not an own property is looked
\* up in Object.prototype, whose properties are functions, but for __proto__
\* (Object.prototype itself)
ObjectPrototypeKeys ==
  { << "c", "o", "n", "s", "t", "r", "u", "c", "t", "o", "r" >>,
    << "_", "_", "p", "r", "o", "t", "o", "_", "_" >>,
    << "h", "a", "s", "O", "w", "n", "P", "r", "o", "p", "e", "r", "t", "y" >>,
    << "i", "s", "P", "r", "o", "t", "o", "t", "y", "p", "e", "O", "f" >>,
    << "p", "r", "o", "p", "e", "r", "t", "y", "I", "s", "E", "n", "u", "m", "e", "r", "a", "b", "l", "e" >>,
    << "t", "o", "L", "o", "c", "a", "l", "e", "S", "t", "r", "i", "n", "g" >>,
    << "t", "o", "S", "t", "r", "i", "n", "g" >>,
    << "v", "a", "l", "u", "e", "O", "f" >>,
    << "_", "_", "d", "e", "f", "i", "n", "e", "G", "e", "t", "t", "e", "r", "_", "_" >>,
    << "_", "_", "d", "e", "f", "i", "n", "e", "S", "e", "t", "t", "e", "r", "_", "_" >>,
    << "_", "_", "l", "o", "o", "k", "u", "p", "G", "e", "t", "t", "e", "r", "_", "_" >>,
    << "_", "_", "l", "o", "o", "k", "u", "p", "S", "e", "t", "t", "e", "r", "_", "_" >> }

\* typeMap[extension]: the label, an inherited property, or undefined
Lookup(map, extension) ==
  IF \E e \in map : e[1] = extension
  THEN Str((CHOOSE e \in map : e[1] = extension)[2])
  ELSE IF extension = << "_", "_", "p", "r", "o", "t", "o", "_", "_" >> THEN [kind |-> "object", chars |-> << >>]
  ELSE IF extension \in ObjectPrototypeKeys THEN [kind |-> "function", chars |-> << >>]
  ELSE [kind |-> "undefined", chars |-> << >>]

\* the body shared by getFileType and getFileTypeSimple:
\*   return typeMap[extension] || extension.toUpperCase() || 'Unknown'
\* (a label, a function and an object are truthy, the empty string is not)
FileTypeFrom(map, fileName, mimeType) ==
  IF startsWith(mimeType, GoogleAppsPrefix)
  THEN LET googleType == SubSeq(mimeType, Len(GoogleAppsPrefix) + 1, Len(mimeType))
       IN  Str(<< "G", "o", "o", "g", "l", "e", " " >> \o toUpperCase(charAt(googleType, 0))
                 \o SubSeq(googleType, 2, Len(googleType)))
  ELSE LET extension == toLowerCase(LastSegment(fileName))
           found     == Lookup(map, extension)
       IN  IF found.kind # "undefined" THEN found
           ELSE IF extension # << >> THEN Str(toUpperCase(extension))
           ELSE Str(<< "U", "n", "k", "n", "o", "w", "n" >>)

getFileTypeComplete(fileName, mimeType) == FileTypeFrom(typeMap, fileName, mimeType)

getFileTypeSimple(fileName, mimeType) == FileTypeFrom(typeMapSimple, fileName, mimeType)

\* the file names that are classified: every name of at most MaxNameLen
\* characters of NameAlphabet, and some longer ones
NameAlphabet == { ".", "p", "Z" }

FileNames ==
  SeqsUpTo(NameAlphabet, MaxNameLen)
    \cup { << "r", "e", "p", "o", "r", "t", ".", "p", "d", "f" >>,
           << "R", "e", "p", "o", "r", "t", ".", "f", "i", "n", "a", "l", ".", "P", "D", "F" >>,
           << "a", "r", "c", "h", "i", "v", "e", ".", "t", "a", "r", ".", "g", "z" >>,
           << "R", "E", "A", "D", "M", "E" >>,
           << "n", "o", "t", "e", "s", "." >>,
           << "p", "h", "o", "t", "o", ".", "J", "P", "E", "G" >>,
           << "b", "a", "c", "k", "u", "p", ".", "7", "z" >>,
           << "c", "o", "n", "s", "t", "r", "u", "c", "t", "o", "r" >>,
           << "x", ".", "c", "o", "n", "s", "t", "r", "u", "c", "t", "o", "r" >>,
           << "a", ".", "_", "_", "p", "r", "o", "t", "o", "_", "_" >>,
           << "a", ".", "t", "o", "S", "t", "r", "i", "n", "g" >> }

MimeTypes ==
  { << >>,
    << "a", "p", "p", "l", "i", "c", "a", "t", "i", "o", "n", "/", "p", "d", "f" >>,
    << "t", "e", "x", "t", "/", "p", "l", "a", "i", "n" >>,
    << "a", "p", "p", "l", "i", "c", "a", "t", "i", "o", "n", "/", "v", "n", "d", ".", "g", "o", "o", "g", "l", "e", "-", "a", "p", "p", "s", "." >>,
    << "a", "p", "p", "l", "i", "c", "a", "t", "i", "o", "n", "/", "v", "n", "d", ".", "g", "o", "o", "g", "l", "e", "-", "a", "p", "p", "s", ".", "d", "o", "c", "u", "m", "e", "n", "t" >>,
    << "a", "p", "p", "l", "i", "c", "a", "t", "i", "o", "n", "/", "v", "n", "d", ".", "g", "o", "o", "g", "l", "e", "-", "a", "p", "p", "s", ".", "s", "p", "r", "e", "a", "d", "s", "h", "e", "e", "t" >> }

\* extractFileData (line 383) classifies a file
classifyComplete ==
  /\ calc = NoCalc
  /\ \E n \in FileNames, m \in MimeTypes :
       calc' = [ fn |-> "getFileType", fileName |-> n, mimeType |-> m,
                 type |-> getFileTypeComplete(n, m) ]
  /\ UNCHANGED <<listing, batchSize, props, triggers, status, report, inv, last, handed, killed, opt, scanListing, scan, other>>

\* extractFileDataOptimized (line 247) classifies a file
classifySimple ==
  /\ calc = NoCalc
  /\ \E n \in FileNames, m \in MimeTypes :
       calc' = [ fn |-> "getFileTypeSimple", fileName |-> n, mimeType |-> m,
                 type |-> getFileTypeSimple(n, m) ]
  /\ UNCHANGED <<listing, batchSize, props, triggers, status, report, inv, last, handed, killed, opt, scanListing, scan, other>>

NextClassify ==
  \/ classifyComplete
  \/ classifySimple

SpecClassify == InitScore /\ [][NextClassify]_vars

\* ------------------------------------------------------ single-batch mode
\* The inventory run by hand: inventoryDrive() is started from the editor or
\* the menu again and again, each invocation one batch (autoMode is never
\* set).
NextSingle ==
  \/ inventoryDrive
  \/ runInventoryBatch
  \/ ListingRaises
  \/ SaveStats
  \/ SaveRaises
  \/ SaveCursor
  \/ Return

SpecSingle == Init /\ [][NextSingle]_vars

\* ------------------------------------------------------ inclusion predicate
\* shouldIncludeFile, lines 263-283, for a configuration (the two CONFIG
\* flags) and what the checks of a file give:
\*   "plain"         : not a native Google file, not trashed
\*   "google"        : getMimeType() starts with application/vnd.google-apps.
\*   "trashed"       : isTrashed() is true
\*   "mimeRaises"    : getMimeType() raises
\*   "trashedRaises" : isTrashed() raises
\* A call is made only if its flag asks for it; an exception is caught and
\* gives false.
Checks == {"plain", "google", "trashed", "mimeRaises", "trashedRaises"}

\* shouldIncludeFile whose catch returns true
shouldIncludeFile_Mutant(config, check) ==
  IF ~config.INCLUDE_GOOGLE_FILES /\ check = "mimeRaises" THEN TRUE
  ELSE IF ~config.INCLUDE_GOOGLE_FILES /\ check = "google" THEN FALSE
  ELSE IF ~config.INCLUDE_TRASHED /\ check = "trashedRaises" THEN TRUE
  ELSE IF ~config.INCLUDE_TRASHED /\ check = "trashed" THEN FALSE
  ELSE TRUE

shouldIncludeFile(config, check) ==
  IF ~config.INCLUDE_GOOGLE_FILES /\ check = "mimeRaises" THEN FALSE
  ELSE IF ~config.INCLUDE_GOOGLE_FILES /\ check = "google" THEN FALSE
  ELSE IF ~config.INCLUDE_TRASHED /\ check = "trashedRaises" THEN FALSE
  ELSE IF ~config.INCLUDE_TRASHED /\ check = "trashed" THEN FALSE
  ELSE TRUE

Configs == [INCLUDE_GOOGLE_FILES : BOOLEAN, INCLUDE_TRASHED : BOOLEAN]

\* the file as the batch sees it: extractFileData calls getMimeType() again
\* (line 382) and raises if that call does
CheckedFile(config, check) ==
  [ name |-> IF check = "google" THEN "b" ELSE "a",
    size |-> IF check \in {"trashed", "trashedRaises"} THEN 3 ELSE 1,
    age |-> 0, sharing |-> "PRIVATE",
    incl |-> shouldIncludeFile(config, check),
    fail |-> IF check = "mimeRaises" THEN "early" ELSE "none",
    check |-> check ]

\* the first batch of a run: getFilesToProcess (lines 226-258) and the
\* for-loop of runInventoryBatch (lines 159-168) on a drive whose files are
\* checked by shouldIncludeFile under some configuration
firstBatch ==
  /\ calc = NoCalc
  /\ \E config \in Configs, checks \in SeqsUpTo(Checks, MaxFiles) :
       LET drive == [i \in 1..Len(checks) |-> CheckedFile(config, checks[i])]
           page  == getFilesToProcess(drive, 0, batchSize)
       IN  calc' = [ fn |-> "getFilesToProcess", config |-> config, drive |-> drive,
                     files |-> page.files, pos |-> page.pos,
                     stats |-> ProcessFiles(FreshStats, FilesAt(drive, page.files)) ]
  /\ UNCHANGED <<listing, batchSize, props, triggers, status, report, inv, last, handed, killed, opt, scanListing, scan, other>>

NextInclude == firstBatch

SpecInclude == InitScore /\ [][NextInclude]_vars

\* ------------------------------------------------------ sharing information
\* What the sharing calls of a file give, in the order extractFileData makes
\* them (lines 429-437), and which of them raises:
\*   raisesAt : "none" | "access" | "permission" | "viewers" | "editors"
SharingReads ==
  [ access : {"PRIVATE", "DOMAIN", "ANYONE"},
    permission : {"VIEW", "EDIT"},
    viewers : { <<>>, <<"v@x">> },
    editors : { <<>>, <<"e@x">> },
    raisesAt : {"none", "access", "permission", "viewers", "editors"} ]

\* the sharing block with each field assigned as soon as it is read
SharingOf_Mutant(read) ==
  [ sharingAccess |-> IF read.raisesAt = "access" THEN "Private" ELSE read.access,
    sharingPermission |-> IF read.raisesAt \in {"access", "permission"}
                          THEN "None" ELSE read.permission,
    viewers |-> IF read.raisesAt = "none" THEN Slice(read.viewers, 5) ELSE <<>>,
    editors |-> IF read.raisesAt = "none" THEN Slice(read.editors, 5) ELSE <<>> ]

\* extractFileData, lines 391-394 and 426-445: the defaults, overwritten
\* inside try/catch; access and permission are assigned after both were
\* read, viewers and editors after both lists were read
SharingOf(read) ==
  [ sharingAccess |-> IF read.raisesAt \in {"access", "permission"}
                      THEN "Private" ELSE read.access,
    sharingPermission |-> IF read.raisesAt \in {"access", "permission"}
                          THEN "None" ELSE read.permission,
    viewers |-> IF read.raisesAt = "none" THEN Slice(read.viewers, 5) ELSE <<>>,
    editors |-> IF read.raisesAt = "none" THEN Slice(read.editors, 5) ELSE <<>> ]

\* processFileForInventory on a file whose sharing calls behave as in read:
\* the extracted data and the statistics of a run that has seen this file only
extractSharing ==
  /\ calc = NoCalc
  /\ \E read \in SharingReads :
       LET data == SharingOf(read)
           d    == [extractFileData(File("a", 1, 0, "PRIVATE", TRUE, "none"))
                      EXCEPT !.sharingAccess = data.sharingAccess]
       IN  calc' = [ fn |-> "extractFileData", read |-> read, data |-> data,
                     stats |-> UpdateStats(FreshStats, d) ]
  /\ UNCHANGED <<listing, batchSize, props, triggers, status, report, inv, last, handed, killed, opt, scanListing, scan, other>>

NextExtract == extractSharing

SpecExtract == InitScore /\ [][NextExtract]_vars

\* ---------------------------------------------------- code-files inventory
\* code-files-inventory.js: inventoryCodeFiles runs one batch per call; the
\* statistics go through JSON.stringify / JSON.parse between the calls.
\* Modelled are the fields the batches accumulate per file: totalFiles,
\* byLanguage, byProject, repositories (fileCount and the Set languages),
\* byOwner and errors.  A drive holds code files only, so every file
\* passes isCodeFile and a page is the next batchSize files.
CodeFile(lang, proj, repo) ==
  [language |-> lang, project |-> proj, isInRepository |-> repo, owner |-> "me"]

CodeFiles ==
  { CodeFile("JavaScript", "app", TRUE),
    CodeFile("Python", "app", TRUE),
    CodeFile("JavaScript", "lib", TRUE),
    CodeFile("Python", "Uncategorized", FALSE) }

\* initializeCodeStats({}), lines 500-515
FreshCodeStats ==
  [ totalFiles |-> 0, byLanguage |-> EmptyMap, byProject |-> EmptyMap,
    byOwner |-> EmptyMap, repositories |-> EmptyMap, errors |-> 0 ]

\* new Set() with the members added so far; JSON.stringify writes a Set as
\* {} and JSON.parse reads that as a plain object, which has no add method
NewSet(members) == [kind |-> "Set", members |-> members]
PlainObject == [kind |-> "Object", members |-> {}]

\* processCodeFile, lines 238-322: the counters in the order the code
\* updates them; languages.add (line 268) raises a TypeError on a value
\* that is not a Set, after fileCount was incremented and before byOwner
processCodeFile(stats, f) ==
  LET s1 == [stats EXCEPT !.totalFiles = @ + 1,
                          !.byLanguage = Incr(@, f.language),
                          !.byProject = Incr(@, f.project)]
      reps == IF f.project \in DOMAIN s1.repositories THEN s1.repositories
              ELSE s1.repositories @@
                     (f.project :> [fileCount |-> 0, languages |-> NewSet({})])
      s2 == [s1 EXCEPT !.repositories = [reps EXCEPT ![f.project].fileCount = @ + 1]]
      s3 == [s2 EXCEPT !.repositories =
                         [@ EXCEPT ![f.project].languages =
                                      NewSet(@.members \cup {f.language})]]
  IN  IF ~f.isInRepository
      THEN [stats |-> [s1 EXCEPT !.byOwner = Incr(@, f.owner)], threw |-> FALSE]
      ELSE IF reps[f.project].languages.kind # "Set"
           THEN [stats |-> s2, threw |-> TRUE]
           ELSE [stats |-> [s3 EXCEPT !.byOwner = Incr(@, f.owner)], threw |-> FALSE]

\* the for loop of runCodeInventoryBatch, lines 126-136
RECURSIVE ProcessCodeFiles(_, _)
ProcessCodeFiles(stats, files) ==
  IF files = <<>> THEN stats
  ELSE LET r == processCodeFile(stats, Head(files))
           s == IF r.threw THEN [r.stats EXCEPT !.errors = @ + 1] ELSE r.stats
       IN  ProcessCodeFiles(s, Tail(files))

\* JSON.stringify(stats), line 139: every Set is written as {}
JsonStringifyCode(stats) ==
  [ totalFiles |-> stats.totalFiles,
    byLanguage |-> Members(stats.byLanguage),
    byProject |-> Members(stats.byProject),
    byOwner |-> Members(stats.byOwner),
    repositories |->
      Members([p \in DOMAIN stats.repositories |->
                 [fileCount |-> stats.repositories[p].fileCount,
                  languages |-> PlainObject]]),
    errors |-> stats.errors ]

\* initializeCodeStats(JSON.parse(property || '{}')), lines 109-110
initializeCodeStats(property) ==
  IF property = <<>> THEN FreshCodeStats
  ELSE LET j == property[1]
       IN  [ totalFiles |-> j.totalFiles,
             byLanguage |-> Object(j.byLanguage),
             byProject |-> Object(j.byProject),
             byOwner |-> Object(j.byOwner),
             repositories |-> Object(j.repositories),
             errors |-> j.errors ]

\* the code-files inventory between two calls: the drive, the batch size,
\* the two script properties, the statistics the final reports were
\* generated from and the number of calls of the current pass
NewCodeInventory(drive, size) ==
  [ fn |-> "inventoryCodeFiles", drive |-> drive, batchSize |-> size,
    codeContinuationToken |-> 0, codeInventoryStats |-> <<>>,
    report |-> <<>>, batches |-> 0 ]

\* runCodeInventoryBatch, lines 102-155, from the properties of state c
runCodeInventoryBatch(c) ==
  LET stats == initializeCodeStats(c.codeInventoryStats)
      from  == c.codeContinuationToken
      to    == Min(from + c.batchSize, Len(c.drive))
      files == SubSeq(c.drive, from + 1, to)
      after == ProcessCodeFiles(stats, files)
  IN  IF files = <<>>
      THEN [c EXCEPT !.report = <<stats>>, !.codeContinuationToken = 0,
                     !.codeInventoryStats = <<>>, !.batches = 0]
      ELSE IF to < Len(c.drive)
      THEN [c EXCEPT !.codeInventoryStats = <<JsonStringifyCode(after)>>,
                     !.codeContinuationToken = to,
                     !.batches = IF from = 0 THEN 1 ELSE @ + 1]
      ELSE [c EXCEPT !.report = <<after>>, !.codeContinuationToken = 0,
                     !.codeInventoryStats = <<>>,
                     !.batches = IF from = 0 THEN 1 ELSE @ + 1]

\* inventoryCodeFiles(), lines 81-97: one batch; the first call is made on
\* some drive with some batch size
inventoryCodeFiles ==
  /\ \E drive \in (IF calc = NoCalc THEN SeqsUpTo(CodeFiles, MaxFiles) ELSE {calc.drive}),
        size \in (IF calc = NoCalc THEN 1..MaxBatch ELSE {calc.batchSize}) :
       calc' = runCodeInventoryBatch(IF calc = NoCalc
                                     THEN NewCodeInventory(drive, size) ELSE calc)
  /\ UNCHANGED <<listing, batchSize, props, triggers, status, report, inv, last, handed, killed, opt, scanListing, scan, other>>

NextCode == inventoryCodeFiles

SpecCode == InitScore /\ [][NextCode]_vars

\* ---------------------------------------------------------- file categories
\* getFileCategory of code-files-inventory.js on file names that are
\* sequences of characters.
\* CONFIG.CONFIG_FILES, lines 62-67
CONFIG_FILES ==
  {
    << "p", "a", "c", "k", "a", "g", "e", ".", "j", "s", "o", "n" >>,
    << "c", "o", "m", "p", "o", "s", "e", "r", ".", "j", "s", "o", "n" >>,
    << "r", "e", "q", "u", "i", "r", "e", "m", "e", "n", "t", "s", ".", "t", "x", "t" >>,
    << "g", "e", "m", "f", "i", "l", "e" >>, << "c", "a", "r", "g", "o", ".", "t", "o", "m", "l" >>,
    << "p", "o", "m", ".", "x", "m", "l" >>,
    << "b", "u", "i", "l", "d", ".", "g", "r", "a", "d", "l", "e" >>,
    << "t", "s", "c", "o", "n", "f", "i", "g", ".", "j", "s", "o", "n" >>,
    << "w", "e", "b", "p", "a", "c", "k", ".", "c", "o", "n", "f", "i", "g", ".", "j", "s" >>,
    << "g", "u", "l", "p", "f", "i", "l", "e", ".", "j", "s" >>,
    << "d", "o", "c", "k", "e", "r", "f", "i", "l", "e" >>,
    << "d", "o", "c", "k", "e", "r", "-", "c", "o", "m", "p", "o", "s", "e", ".", "y", "m", "l" >>,
    << ".", "g", "i", "t", "i", "g", "n", "o", "r", "e" >>, << ".", "e", "n", "v" >>,
    << ".", "e", "n", "v", ".", "e", "x", "a", "m", "p", "l", "e" >>,
    << "m", "a", "k", "e", "f", "i", "l", "e" >>, << "c", "m", "a", "k", "e" >>,
    << ".", "e", "d", "i", "t", "o", "r", "c", "o", "n", "f", "i", "g" >>,
    << ".", "p", "r", "e", "t", "t", "i", "e", "r", "r", "c" >>,
    << ".", "e", "s", "l", "i", "n", "t", "r", "c" >> }

\* CONFIG.SCRIPT_PATTERNS, line 76
SCRIPT_PATTERNS ==
  {
    << "s", "c", "r", "i", "p", "t" >>, << "b", "i", "n" >>, << "t", "o", "o", "l" >>,
    << "u", "t", "i", "l" >>, << "h", "e", "l", "p", "e", "r" >>, << "r", "u", "n" >>,
    << "b", "u", "i", "l", "d" >>, << "d", "e", "p", "l", "o", "y" >> }

\* the extensions of the script rule, line 435
ScriptExtensions ==
  {
    << "s", "h" >>, << "b", "a", "s", "h" >>, << "p", "s", "1" >>, << "b", "a", "t" >>,
    << "c", "m", "d" >> }

\* the exact names of the build rule, line 451
BuildFiles ==
  {
    << "p", "o", "m", ".", "x", "m", "l" >>,
    << "b", "u", "i", "l", "d", ".", "g", "r", "a", "d", "l", "e" >>,
    << "c", "a", "r", "g", "o", ".", "t", "o", "m", "l" >> }

\* the conditions of the five if statements, on the lower-cased name
ConfigurationRule(lowerName) ==
  \/ lowerName \in CONFIG_FILES
  \/ includes(lowerName, << "c", "o", "n", "f", "i", "g" >>)
  \/ includes(lowerName, << ".", "e", "n", "v" >>)
  \/ startsWith(lowerName, << "." >>)

ScriptRule(lowerName) ==
  \/ \E pattern \in SCRIPT_PATTERNS : includes(lowerName, pattern)
  \/ LastSegment(lowerName) \in ScriptExtensions

TestRule(lowerName) ==
  includes(lowerName, << "t", "e", "s", "t" >>) \/ includes(lowerName, << "s", "p", "e", "c" >>)

DocumentationRule(lowerName) ==
  includes(lowerName, << "r", "e", "a", "d", "m", "e" >>) \/ includes(lowerName, << "d", "o", "c" >>)

BuildRule(lowerName) ==
  \/ includes(lowerName, << "b", "u", "i", "l", "d" >>)
  \/ includes(lowerName, << "m", "a", "k", "e" >>)
  \/ lowerName \in BuildFiles

\* getFileCategory with the script rule tried before the configuration rule
getFileCategory_Mutant(fileName) ==
  LET lowerName == toLowerCase(fileName)
  IN  IF ScriptRule(lowerName) THEN "Script"
      ELSE IF ConfigurationRule(lowerName) THEN "Configuration"
      ELSE IF TestRule(lowerName) THEN "Test"
      ELSE IF DocumentationRule(lowerName) THEN "Documentation"
      ELSE IF BuildRule(lowerName) THEN "Build"
      ELSE "Source Code"

\* getFileCategory, lines 421-455: the first if whose condition holds returns
getFileCategory(fileName) ==
  LET lowerName == toLowerCase(fileName)
  IN  IF ConfigurationRule(lowerName) THEN "Configuration"
      ELSE IF ScriptRule(lowerName) THEN "Script"
      ELSE IF TestRule(lowerName) THEN "Test"
      ELSE IF DocumentationRule(lowerName) THEN "Documentation"
      ELSE IF BuildRule(lowerName) THEN "Build"
      ELSE "Source Code"

\* most pieces a generated file name is made of
MaxPieces == 2

\* the pieces: the words the rules look for, in both cases, and fillers
NamePieces ==
  {
    << "c", "o", "n", "f", "i", "g" >>, << ".", "e", "n", "v" >>, << "." >>,
    << "s", "c", "r", "i", "p", "t" >>, << "b", "u", "i", "l", "d" >>, << ".", "s", "h" >>,
    << "T", "e", "s", "t" >>, << "s", "p", "e", "c" >>, << "R", "E", "A", "D", "M", "E" >>,
    << "d", "o", "c" >>, << "m", "a", "k", "e" >>, << "x" >>, << ".", "j", "s" >> }

RECURSIVE Concatenations(_)
Concatenations(n) ==
  IF n = 0 THEN { << >> }
  ELSE LET shorter == Concatenations(n - 1)
       IN  shorter \cup { s \o p : s \in shorter, p \in NamePieces }

\* the names getFileCategory is applied to: the configuration file names
\* and the concatenations of at most MaxPieces pieces
CategoryNames == CONFIG_FILES \cup Concatenations(MaxPieces)

\* extractCodeFileData (line 336) categorizes a file
categorize ==
  /\ calc = NoCalc
  /\ \E n \in CategoryNames :
       calc' = [ fn |-> "getFileCategory", fileName |-> n,
                 category |-> getFileCategory(n) ]
  /\ UNCHANGED <<listing, batchSize, props, triggers, status, report, inv, last, handed, killed, opt, scanListing, scan, other>>

NextCategory == categorize

SpecCategory == InitScore /\ [][NextCategory]_vars

\* ---------------------------------------------------------- high-risk files
\* processSharedFile, shared-files-audit.js lines 238-260: what
\* stats.highRiskFiles holds after the file, starting from an empty list
highRiskFiles(fileData) ==
  LET riskLevel == assessSecurityRisk(fileData)
  IN  IF riskLevel >= 70
      THEN << [ sharingAccess |-> fileData.sharingAccess,
                sharingPermission |-> fileData.sharingPermission,
                type |-> fileData.type, riskScore |-> riskLevel ] >>
      ELSE << >>

\* ------------------------------------------------------- file list sheet
\* The rows of the File List sheet over passes run by hand, one
\* inventoryDrive() per batch.  getOrCreateSpreadsheet (lines 499-509) opens
\* the spreadsheet of that name when it exists, initializeSheets (lines
\* 514-569) sets a sheet up only when it is missing, and addToFileListSheet
\* (lines 574-591) appends one row; the sheet is cleared nowhere.
\*   rows       : the data rows, as indices of the files in the drive
\*   passes     : passes started from the beginning of the listing
\*   justReset  : resetInventory was the last operation
\*   afterReset : the current pass began right after a resetInventory
\*   complete   : the last batch completed its pass
MaxPasses == 2

NewFileList(drive, size) ==
  [ fn |-> "addToFileListSheet", drive |-> drive, batchSize |-> size,
    continuationToken |-> 0, rows |-> <<>>, passes |-> 0,
    justReset |-> FALSE, afterReset |-> FALSE, complete |-> FALSE ]

\* the rows the for loop of a batch appends: one for each file of the page
\* whose processFileForInventory did not raise
RECURSIVE RowsOf(_, _)
RowsOf(drive, files) ==
  IF files = <<>> THEN <<>>
  ELSE (IF processFileForInventory(FreshStats, drive[Head(files)]).threw
        THEN <<>> ELSE << Head(files) >>) \o RowsOf(drive, Tail(files))

\* runInventoryBatch, lines 115-201, as far as the cursor and the File List
\* sheet go
fileListBatch(c) ==
  LET page  == getFilesToProcess(c.drive, c.continuationToken, c.batchSize)
      first == c.continuationToken = 0
      base  == [c EXCEPT !.passes = IF first THEN @ + 1 ELSE @,
                         !.afterReset = IF first THEN c.justReset ELSE @,
                         !.justReset = FALSE]
  IN  IF page.files = <<>>
      THEN [base EXCEPT !.continuationToken = 0, !.complete = TRUE]
      ELSE IF page.pos < Len(c.drive)
      THEN [base EXCEPT !.rows = @ \o RowsOf(c.drive, page.files),
                        !.continuationToken = page.pos, !.complete = FALSE]
      ELSE [base EXCEPT !.rows = @ \o RowsOf(c.drive, page.files),
                        !.continuationToken = 0, !.complete = TRUE]

\* inventoryDrive() in single-batch mode; the first call is made on some
\* drive with some batch size
inventoryDriveOnSheet ==
  /\ \E drive \in (IF calc = NoCalc THEN SeqsUpTo(FileKinds, MaxFiles) ELSE {calc.drive}),
        size \in (IF calc = NoCalc THEN 1..MaxBatch ELSE {calc.batchSize}) :
       LET c == IF calc = NoCalc THEN NewFileList(drive, size) ELSE calc
       IN  /\ c.continuationToken # 0 \/ c.passes < MaxPasses
           /\ calc' = fileListBatch(c)
  /\ UNCHANGED <<listing, batchSize, props, triggers, status, report, inv, last, handed, killed, opt, scanListing, scan, other>>

\* resetInventory(), lines 1061-1067: the properties are deleted, the
\* spreadsheet is not touched
resetInventoryOnSheet ==
  /\ calc.fn = "addToFileListSheet"
  /\ calc' = [calc EXCEPT !.continuationToken = 0, !.justReset = TRUE,
                          !.complete = FALSE]
  /\ UNCHANGED <<listing, batchSize, props, triggers, status, report, inv, last, handed, killed, opt, scanListing, scan, other>>

NextSheet ==
  \/ inventoryDriveOnSheet
  \/ resetInventoryOnSheet

SpecSheet == InitScore /\ [][NextSheet]_vars

\* ------------------------------------------------------- project triggers
\* The trigger list of the script project under the functions of
\* drive-inventory-complete.js that create, delete or are started by
\* triggers.  What a batch does to the drive is left open: an invocation of
\* inventoryDrive ends in one of Outcomes.
\*   triggers          : ScriptApp.getProjectTriggers(), each with its
\*                       handler and whether it is a one-time trigger that
\*                       has fired (it stays listed until it is deleted)
\*   autoMode          : the script property
\*   continuationToken : the property is stored
\*   totalFiles        : inventoryStats is stored with totalFiles > 0
\*   last              : the function called last
InventoryHandlers ==
  {"continueAutomaticInventory", "inventoryDrive", "runScheduledInventory"}

Trigger(handler) == [handler |-> handler, fired |-> FALSE]

\* the trigger lists a project may start with: none, or one installed for
\* a function that is not part of the inventory
InstalledTriggers == { << >>, << Trigger("onOpen") >> }

NewProject(installed) ==
  [ fn |-> "scheduleNextRun", triggers |-> installed, autoMode |-> "",
    continuationToken |-> FALSE, totalFiles |-> FALSE, last |-> "none" ]

\* the project before the first call, or as the last call left it
Project ==
  IF calc = NoCalc THEN { NewProject(t) : t \in InstalledTriggers }
  ELSE IF calc.fn = "scheduleNextRun" THEN {calc} ELSE {}

\* how an invocation of inventoryDrive ends:
\*   more        : the last batch stored a cursor (in continuous mode the time
\*                 check then found the budget used up)
\*   last        : the last batch reached the end of the listing
\*   empty       : the last batch listed no file
\*   raised      : the first batch raised before it stored anything
\*   raisedLater : a later batch of a continuous run raised
Outcomes == {"more", "last", "empty", "raised", "raisedLater"}

\* cancelScheduledRuns(), lines 920-930
cancelScheduledRuns(projectTriggers) ==
  SelectSeq(projectTriggers, LAMBDA t : t.handler \notin InventoryHandlers)

\* scheduleNextRun with the slip of leaving out cancelScheduledRuns
scheduleNextRun_Mutant(projectTriggers) ==
  Append(projectTriggers, Trigger("continueAutomaticInventory"))

\* scheduleNextRun(), lines 887-898
scheduleNextRun(projectTriggers) ==
  Append(cancelScheduledRuns(projectTriggers), Trigger("continueAutomaticInventory"))

\* the properties after a batch that stored a cursor
Stored(c) == [c EXCEPT !.continuationToken = TRUE, !.totalFiles = TRUE]

\* the properties after the batch that completed the pass (lines 146-148,
\* 192-194)
Deleted(c) ==
  [c EXCEPT !.continuationToken = FALSE, !.totalFiles = FALSE, !.autoMode = ""]

\* inventoryDrive(), lines 49-63, ending in outcome: one batch, or
\* runInventoryContinuously (lines 68-110) when autoMode is 'true'
InventoryDriveEnds(c, outcome) ==
  IF c.autoMode # "true"
  THEN CASE outcome = "more"  -> Stored(c)
         [] outcome = "last"  -> Deleted(c)
         [] outcome = "empty" ->
              [Deleted(c) EXCEPT !.triggers = cancelScheduledRuns(@)]
         [] OTHER -> c
  ELSE CASE outcome = "more"  ->
              [Stored(c) EXCEPT !.triggers = scheduleNextRun(@)]
         [] outcome \in {"last", "empty"} ->
              [Deleted(c) EXCEPT !.triggers = cancelScheduledRuns(@)]
         [] outcome = "raisedLater" -> Stored(c)
         [] OTHER -> c

\* resetInventory(), lines 1061-1067
ResetProperties(c) == Deleted(c)

\* runScheduledInventory(), lines 1035-1056
ScheduledInventoryEnds(c, outcome) ==
  IF ~c.continuationToken /\ c.totalFiles
  THEN [c EXCEPT !.triggers = cancelScheduledRuns(@)]
  ELSE InventoryDriveEnds([c EXCEPT !.autoMode = "true"], outcome)

\* inventoryDrive() run by hand
inventoryDriveOnTriggers ==
  /\ \E c \in Project, outcome \in Outcomes :
       /\ outcome = "raisedLater" => c.autoMode = "true"
       /\ calc' = [InventoryDriveEnds(c, outcome) EXCEPT !.last = "inventoryDrive"]
  /\ UNCHANGED <<listing, batchSize, props, triggers, status, report, inv, last, handed, killed, opt, scanListing, scan, other>>

\* startAutomaticInventory(), lines 848-864
startAutomaticInventoryOnTriggers ==
  /\ \E c \in Project, outcome \in Outcomes :
       LET start == [(IF c.continuationToken THEN c ELSE ResetProperties(c))
                       EXCEPT !.autoMode = "true"]
       IN  calc' = [InventoryDriveEnds(start, outcome)
                      EXCEPT !.last = "startAutomaticInventory"]
  /\ UNCHANGED <<listing, batchSize, props, triggers, status, report, inv, last, handed, killed, opt, scanListing, scan, other>>

\* stopAutomaticInventory(), lines 869-882
stopAutomaticInventoryOnTriggers ==
  /\ \E c \in Project :
       calc' = [c EXCEPT !.autoMode = "false",
                         !.triggers = cancelScheduledRuns(@),
                         !.last = "stopAutomaticInventory"]
  /\ UNCHANGED <<listing, batchSize, props, triggers, status, report, inv, last, handed, killed, opt, scanListing, scan, other>>

\* resetInventory() run by hand
resetInventoryOnTriggers ==
  /\ \E c \in Project :
       calc' = [ResetProperties(c) EXCEPT !.last = "resetInventory"]
  /\ UNCHANGED <<listing, batchSize, props, triggers, status, report, inv, last, handed, killed, opt, scanListing, scan, other>>

\* setupHourlyInventory(), lines 1016-1030
setupHourlyInventory ==
  /\ \E c \in Project, outcome \in Outcomes :
       LET hourly == [c EXCEPT !.triggers =
                          Append(cancelScheduledRuns(@), Trigger("runScheduledInventory"))]
       IN  calc' = [ScheduledInventoryEnds(hourly, outcome)
                      EXCEPT !.last = "setupHourlyInventory"]
  /\ UNCHANGED <<listing, batchSize, props, triggers, status, report, inv, last, handed, killed, opt, scanListing, scan, other>>

\* the hourly trigger fires: runScheduledInventory()
runScheduledInventory ==
  /\ \E c \in Project, outcome \in Outcomes :
       /\ \E i \in 1..Len(c.triggers) : c.triggers[i].handler = "runScheduledInventory"
       /\ calc' = [ScheduledInventoryEnds(c, outcome)
                     EXCEPT !.last = "runScheduledInventory"]
  /\ UNCHANGED <<listing, batchSize, props, triggers, status, report, inv, last, handed, killed, opt, scanListing, scan, other>>

\* a one-minute trigger fires: continueAutomaticInventory(), lines 903-915
continueAutomaticInventoryOnTriggers ==
  /\ \E c \in Project, outcome \in Outcomes :
       \E i \in 1..Len(c.triggers) :
         /\ c.triggers[i].handler = "continueAutomaticInventory"
         /\ ~c.triggers[i].fired
         /\ LET firing == [c EXCEPT !.triggers[i].fired = TRUE]
            IN  calc' = [(IF firing.autoMode # "true"
                          THEN [firing EXCEPT !.triggers = cancelScheduledRuns(@)]
                          ELSE InventoryDriveEnds(firing, outcome))
                           EXCEPT !.last = "continueAutomaticInventory"]
  /\ UNCHANGED <<listing, batchSize, props, triggers, status, report, inv, last, handed, killed, opt, scanListing, scan, other>>

NextTriggers ==
  \/ inventoryDriveOnTriggers
  \/ startAutomaticInventoryOnTriggers
  \/ stopAutomaticInventoryOnTriggers
  \/ resetInventoryOnTriggers
  \/ setupHourlyInventory
  \/ runScheduledInventory
  \/ continueAutomaticInventoryOnTriggers

SpecTriggers == InitScore /\ [][NextTriggers]_vars

\* ------------------------------------------------------- claims: helpers
\* the files of a listing that pass shouldIncludeFile, in listing order
RECURSIVE Included(_)
Included(L) ==
  IF L = <<>> THEN <<>>
  ELSE (IF Head(L).incl THEN <<Head(L)>> ELSE <<>>) \o Included(Tail(L))

\* the statistics of one batch that holds every file of the listing
OnePass(L) == ProcessFiles(FreshStats, Included(L))

SortedBy(s, key(_)) == \A i \in 1..Len(s) - 1 : key(s[i]) >= key(s[i + 1])
SizeOf(e) == e.size
AgeOf(e) == e.ageInDays

JustCompleted == inv.pc = "idle" /\ last.end = "complete"

\* ----------------------------------------------------------------- claims
\* C1: when a run of the complete inventory finishes, whatever the batch
\* size and however many batches (each reloading the statistics that the
\* previous one saved), the statistics handed to the final reports are those
\* of processing the whole listing as one batch.
C1_IdempotentResumption ==
  report # <<>> => report[1] = OnePass(listing)

\* a run that needed at least two saved-and-reloaded batches has finished,
\* with a truncated large-files list and a duplicate group
C1_Witness ==
  /\ JustCompleted
  /\ report # <<>>
  /\ report[1].totalFiles > batchSize
  /\ Len(report[1].largeFiles) = LIST_CAP
  /\ \E k \in DOMAIN report[1].duplicateCandidates :
        Len(report[1].duplicateCandidates[k]) > 1

\* C2: at completion every included file has been handed to
\* processFileForInventory exactly once, no excluded file has been, and
\* totalFiles + errors is the number of included files.
C2_ExactlyOnce ==
  JustCompleted =>
    /\ \A i \in 1..Len(listing) : handed[i] = IF listing[i].incl THEN 1 ELSE 0
    /\ report[1].totalFiles + report[1].errors = Len(Included(listing))

\* C3: an invocation that ends on the time limit after k batches (and is
\* not followed by a stop request) has processed exactly k * BATCH_SIZE files
\* and leaves a stored cursor, one scheduled continuation and the status
\* PAUSED.
C3_PauseResume ==
  (inv.pc = "idle" /\ last.end = "timelimit" /\ props.autoMode = "true") =>
    /\ last.processed = last.batches * batchSize
    /\ props.continuationToken # 0
    /\ triggers = 1
    /\ status = "PAUSED"

\* C4: whenever no invocation is executing, the persisted statistics account
\* for exactly the files listed before the persisted cursor.
C4_CrashDurability ==
  inv.pc = "idle" =>
    initializeStats(props.inventoryStats)
      = OnePass(SubSeq(listing, 1, props.continuationToken))

\* C5: the statistics the optimized inventory generates its final reports
\* from cover every file of the drive, in however many sessions the run
\* took: totalFiles, totalSize, filesByType and largeFiles are those of
\* processing the whole listing.
C5_OptimizedContinues ==
  opt.report # <<>> =>
    LET all == ProcessFilesOptimized(FreshOptStats, listing)
        rep == opt.report[1]
    IN  /\ rep.totalFiles = all.totalFiles
        /\ rep.totalSize = all.totalSize
        /\ rep.filesByType = all.filesByType
        /\ rep.largeFiles = all.largeFiles

\* C6: the shared-files audit is COMPLETE only when every file of the drive
\* has been examined: no shared file lies beyond the last examined one.
C6_ScanCoversAll ==
  scan.status = "COMPLETE" =>
    \A i \in 1..Len(scanListing) : scanListing[i] => i <= scan.examined

\* C7: each bounded list of the statistics has at most LIST_CAP entries and
\* is sorted by its ranking key: large files by descending size, old files
\* by descending age.
C7_BoundedSorted ==
  /\ Len(inv.stats.largeFiles) <= LIST_CAP
  /\ Len(inv.stats.oldFiles) <= LIST_CAP
  /\ SortedBy(inv.stats.largeFiles, SizeOf)
  /\ SortedBy(inv.stats.oldFiles, AgeOf)

\* C8: the persisted statistics hold no more per-file records than the
\* capped lists (large, old, shared files) can hold, however many files have
\* been processed.
C8_BoundedCheckpoint ==
  props.inventoryStats # <<>> =>
    Records(initializeStats(props.inventoryStats)) <= 3 * LIST_CAP

\* C9: after a save of the statistics that failed on the property size
\* limit, the status is ERROR and the checkpoint is the one of the last
\* successful save.
C9_QuotaExceeded ==
  (inv.pc = "idle" /\ last.end = "savefail") =>
    /\ status = "ERROR"
    /\ initializeStats(props.inventoryStats)
         = OnePass(SubSeq(listing, 1, props.continuationToken))

\* C10: once stopAutomaticInventory has been issued during a continuous
\* run, the loop of that run goes on to no further batch.
C10_CooperativeStop ==
  [][inv.stopped => ~(inv.pc = "loop" /\ inv'.pc = "batch")]_vars

\* C11: two invocations never both hold a processed batch that started from
\* the same stored cursor (each about to write, or having written,
\* inventoryStats).
C11_SingleActiveRun ==
  ~ ( /\ inv.pc \in {"save", "cursor"}
      /\ other.pc \in {"save", "cursor"}
      /\ inv.from = other.from )

\* C12: startAutomaticInventory with a stored cursor leaves cursor and
\* statistics as they are; with no stored cursor it leaves neither cursor
\* nor statistics behind (autoMode is then set for the run); and the first
\* batch of an automatic run that starts at the beginning of the drive
\* counts exactly the files of its page.
C12_ResumeOrReset ==
  /\ [][startAutomaticInventory =>
          /\ props'.autoMode = "true"
          /\ IF props.continuationToken # 0
             THEN /\ props'.continuationToken = props.continuationToken
                  /\ props'.inventoryStats = props.inventoryStats
             ELSE /\ props'.continuationToken = 0
                  /\ props'.inventoryStats = <<>>]_vars
  /\ []((inv.auto /\ inv.pc = "save" /\ inv.batches = 1 /\ inv.from = 0) =>
          inv.stats = OnePass(SubSeq(listing, 1, inv.pos)))

\* an automatic invocation has resumed from a stored cursor on top of the
\* stored statistics
C12_Witness ==
  /\ inv.auto /\ inv.pc = "save" /\ inv.batches = 1
  /\ inv.from # 0
  /\ props.continuationToken = inv.from
  /\ inv.stats.totalFiles > inv.processed

\* C13: a batch that runs to its end marks the run COMPLETE, hands the
\* statistics to the final reports and clears the checkpoint exactly when
\* its page is empty or the iterator has no further item after the page
\* (both mean that the iterator is exhausted); otherwise it does none of
\* the three.
C13_CompletionRule ==
  [][(inv.pc \in {"batch", "cursor"} /\ inv'.pc = "loop") =>
       IF inv'.pos = Len(listing)
       THEN status' = "COMPLETE" /\ report' = <<inv'.stats>> /\ props' = NoProps
       ELSE status' # "COMPLETE" /\ report' = report /\ props'.continuationToken = inv'.pos]_vars

\* a first page of exactly BATCH_SIZE files with items remaining, then a
\* zero-length page (the rest is excluded), which completed the run
C13_Witness ==
  /\ inv.pc = "loop" /\ status = "COMPLETE" /\ props = NoProps
  /\ inv.batches = 2 /\ inv.processed = batchSize
  /\ inv.from = batchSize /\ inv.pos = Len(listing) /\ inv.pos > inv.from

\* C14: resetInventory leaves continuationToken, inventoryStats and autoMode
\* absent; so does the batch in which a continuous run completes; and when
\* the completed continuous invocation returns, cursor and statistics are
\* absent and no continuation trigger is pending.
C14_CheckpointLifecycle ==
  /\ [][resetInventory => props' = NoProps]_vars
  /\ [][(inv.auto /\ inv.pc \in {"batch", "cursor"} /\ inv'.pc = "loop" /\ ~inv'.hasMore) =>
          props' = NoProps]_vars
  /\ [][(inv.auto /\ inv.pc = "loop" /\ ~inv.hasMore /\ inv'.pc = "idle") =>
          /\ triggers' = 0
          /\ props'.continuationToken = 0
          /\ props'.inventoryStats = <<>>]_vars

\* a continuous invocation of several batches has completed and returned
C14_Witness ==
  /\ inv.pc = "idle" /\ last.end = "complete" /\ last.batches >= 2
  /\ status = "COMPLETE"
  /\ props = NoProps /\ triggers = 0

\* C15: an automatic run that is started and never stopped reaches COMPLETE
\* (with its checkpoint cleared) unless a listing or a save of the
\* statistics fails; and an invocation that ended on the time limit leaves
\* a stored cursor and a pending continuation trigger.
C15_RunsUntilComplete ==
  /\ (props.autoMode = "true") ~>
       \/ status = "COMPLETE" /\ props = NoProps
       \/ inv.pc = "idle" /\ last.end \in {"listfail", "savefail"}
  /\ []((inv.pc = "idle" /\ last.end = "timelimit") =>
          triggers = 1 /\ props.continuationToken # 0)

\* an automatic invocation has ended on the time limit with files remaining
C15_Witness ==
  /\ inv.pc = "idle" /\ last.end = "timelimit"
  /\ props.autoMode = "true"
  /\ props.continuationToken # 0 /\ props.continuationToken < Len(listing)
  /\ triggers = 1

\* number of files of the listing with this name and size whose statistics
\* were recorded (included, and extractFileData did not raise)
Recorded(n, sz) ==
  Cardinality({ i \in 1..Len(listing) :
                  /\ listing[i].incl /\ listing[i].fail # "early"
                  /\ listing[i].name = n /\ listing[i].size = sz })

\* C16: every row of the duplicates report stands for at least 2 files of
\* the drive with that name and that size, and counts exactly those files;
\* every (name, size) pair that 2 or more files have is reported once, and a
\* pair that only one file has is not reported.
C16_DuplicateGrouping ==
  report # <<>> =>
    LET rows == generateDuplicatesReport(report[1])
    IN  /\ \A i \in 1..Len(rows) :
              rows[i].count >= 2 /\ rows[i].count = Recorded(rows[i].name, rows[i].size)
        /\ \A i, j \in 1..Len(rows) :
              (rows[i].name = rows[j].name /\ rows[i].size = rows[j].size) => i = j
        /\ \A f \in 1..Len(listing) :
              (Recorded(listing[f].name, listing[f].size) >= 2) <=>
                 \E i \in 1..Len(rows) :
                    rows[i].name = listing[f].name /\ rows[i].size = listing[f].size

\* the drive holds two files "a" of size 1 and a file "b" of another size,
\* and the report of the completed run has exactly one row, of 2 files
C16_Witness ==
  /\ JustCompleted /\ report # <<>>
  /\ Len(listing) = 3
  /\ listing[1].name = "a" /\ listing[2].name = "a" /\ listing[3].name = "b"
  /\ generateDuplicatesReport(report[1]) = << [name |-> "a", size |-> 1, count |-> 2] >>

\* C17: no entry of the sharedFiles list is a file whose sharing access is
\* private.
C17_SharedMembership ==
  \A i \in 1..Len(inv.stats.sharedFiles) :
     inv.stats.sharedFiles[i].sharingAccess \notin {"PRIVATE", "Private"}

\* C18: of two large-file records that differ in age only, or in size only,
\* the older (the larger) one has a cleanup score at least as high; every
\* cleanup score lies in 0..100.
C18_MonotonicCleanupScore ==
  calc.fn = "calculateCleanupScore" =>
    /\ calc.scoreA \in 0..100
    /\ calc.scoreB \in 0..100
    /\ (calc.a.ageInDays >= calc.b.ageInDays /\ calc.a.size >= calc.b.size) =>
          calc.scoreA >= calc.scoreB

\* two records that differ in age only, across a tier, with different scores
C18_Witness ==
  /\ calc.fn = "calculateCleanupScore"
  /\ calc.a.size = calc.b.size
  /\ calc.a.ageInDays = 366 /\ calc.b.ageInDays = 365
  /\ calc.scoreA = calc.scoreB + 10

\* the exposure level of a shared file: 0 private, 1 external, 2 domain,
\* 3 public
Exposure(fileData) ==
  IF isPublic(fileData) THEN 3
  ELSE IF isDomainShared(fileData) THEN 2
  ELSE IF fileData.externalDomains > 0 THEN 1
  ELSE 0

ExposurePoints(fileData) ==
  IF isPublic(fileData) THEN 40
  ELSE IF isDomainShared(fileData) THEN 20
  ELSE IF fileData.externalDomains > 0 THEN 25
  ELSE 0
PermissionPoints(fileData) ==
  IF fileData.sharingPermission = "EDIT" /\ isPublic(fileData) THEN 20
  ELSE IF fileData.sharingPermission = "EDIT" THEN 10
  ELSE 0
TypePoints(fileData) ==
  IF toLowerCase(fileData.type) \in sensitiveTypes THEN 10 ELSE 0
ExternalCountPoints(fileData) ==
  IF fileData.externalDomains > 5 THEN 15
  ELSE IF fileData.externalDomains > 2 THEN 10
  ELSE IF fileData.externalDomains > 0 THEN 5
  ELSE 0

\* C20: the risk score is the sum of the exposure points, the permission
\* points, the keyword points capped at 25 on their own, the type points
\* and the external-count points, clamped to 100.
C20_IndependentKeywordCap ==
  calc.fn = "assessSecurityRisk" =>
    calc.scoreA = Min(ExposurePoints(calc.a) + PermissionPoints(calc.a)
                        + Min(5 * calc.a.keywordHits, 25)
                        + TypePoints(calc.a) + ExternalCountPoints(calc.a), 100)

\* C21: getFileType and getFileTypeSimple return a non-empty string for
\* every file name and mime type, and 'Unknown' when the name is empty and
\* the mime type is not a native Google type.
C21_ClassificationTotality ==
  calc.fn \in {"getFileType", "getFileTypeSimple"} =>
    /\ calc.type.kind = "string"
    /\ calc.type.chars # << >>
    /\ (calc.fileName = << >> /\ ~startsWith(calc.mimeType, GoogleAppsPrefix)) =>
          calc.type = Str(<< "U", "n", "k", "n", "o", "w", "n" >>)

\* the files of the page that the batch just listed: the included files
\* between the cursor it read and the position of its iterator
PageOf(invocation) ==
  { i \in (invocation.from + 1)..invocation.pos : listing[i].incl }

\* C22: a batch whose page holds files that raise adds one to the error
\* counter for each of them, still hands every file of the page to
\* processFileForInventory and counts those that do not raise; the batch is
\* given up only when the save of the statistics exceeds the property size
\* limit, otherwise the statistics (error counter included) are persisted
\* and then the cursor.
C22_FileFailuresDoNotAbort ==
  /\ [][(inv.pc = "batch" /\ inv'.pc = "save") =>
          LET before  == initializeStats(props.inventoryStats)
              page    == PageOf(inv')
              raising == { i \in page : listing[i].fail # "none" }
          IN  /\ inv'.stats.errors = before.errors + Cardinality(raising)
              /\ inv'.processed = inv.processed + Cardinality(page \ raising)
              /\ inv'.stats.totalFiles >= before.totalFiles + Cardinality(page \ raising)
              /\ \A i \in page : handed'[i] >= 1]_vars
  /\ [][(inv.pc = "save" /\ inv'.pc # "save") =>
          \/ Records(inv.stats) > QuotaRecords
          \/ inv'.pc = "cursor" /\ props'.inventoryStats = <<JsonStringify(inv.stats)>>]_vars
  /\ [][(inv.pc = "cursor" /\ inv'.pc # "cursor") =>
          /\ inv'.pc = "loop"
          /\ inv'.hasMore => props'.continuationToken = inv.pos]_vars

\* the first file of a page of two raised, the second one was counted, and
\* statistics and cursor of that batch are stored
C22_Witness ==
  /\ inv.pc = "loop" /\ inv.hasMore /\ inv.from = 0 /\ inv.pos = 2
  /\ listing[1].fail = "early" /\ listing[2].fail = "none"
  /\ inv.stats.errors = 1 /\ inv.stats.totalFiles = 1 /\ inv.processed = 1
  /\ props.continuationToken = 2
  /\ initializeStats(props.inventoryStats) = inv.stats

\* C23: an invocation that ended because the listing call failed leaves the
\* run PAUSED (the listing having been retried a bounded number of times
\* before the invocation gave up).
C23_ListingFailure ==
  (inv.pc = "idle" /\ last.end = "listfail") => status = "PAUSED"

\* C24: after a session of the optimized inventory that ended with an
\* exception, the progress sheet holds the error information and a
\* continuation run is scheduled.
C24_OptimizedOnError ==
  (opt.pc = "idle" /\ opt.raised) => (opt.error /\ opt.triggers > 0)

\* the n largest of the sizes that the files I of the listing have, in
\* descending order
RECURSIVE LargestSizes(_, _)
LargestSizes(I, n) ==
  IF I = {} \/ n = 0 THEN <<>>
  ELSE LET i == CHOOSE x \in I : \A y \in I : listing[x].size >= listing[y].size
       IN  <<listing[i].size>> \o LargestSizes(I \ {i}, n - 1)

\* the files among the first pos of the listing whose statistics were
\* updated and whose size exceeds the large-file threshold
LargeBefore(pos) ==
  { i \in 1..pos : /\ listing[i].incl /\ listing[i].fail # "early"
                   /\ listing[i].size > LARGE_FILE_THRESHOLD }

SizesOf(list) == [i \in 1..Len(list) |-> list[i].size]

OptLargeAll ==
  { i \in 1..Len(listing) : listing[i].fail = "none" /\ listing[i].size > LARGE_FILE_THRESHOLD }

\* C26: when the optimized inventory has gone through the whole drive in one
\* session, the sizes in the large-files list of its final reports are the
\* LIST_CAP largest sizes among the large files of the drive.
C26_OptimizedLargeFiles ==
  (opt.pc = "idle" /\ opt.sessions = 1 /\ ~opt.raised /\ opt.triggers = 0 /\ opt.report # <<>>) =>
     SizesOf(opt.report[1].largeFiles) = LargestSizes(OptLargeAll, LIST_CAP)

\* a file fails the inclusion predicate: a native Google file when
\* INCLUDE_GOOGLE_FILES is false, a trashed file when INCLUDE_TRASHED is
\* false, or a file whose check raises
Skipped(config, f) ==
  \/ ~config.INCLUDE_GOOGLE_FILES /\ f.check \in {"google", "mimeRaises"}
  \/ ~config.INCLUDE_TRASHED /\ f.check \in {"trashed", "trashedRaises"}

\* the files of a drive that do not fail the inclusion predicate, in order
RECURSIVE NotSkipped(_, _)
NotSkipped(config, drive) ==
  IF drive = <<>> THEN <<>>
  ELSE (IF Skipped(config, Head(drive)) THEN <<>> ELSE <<Head(drive)>>)
         \o NotSkipped(config, Tail(drive))

\* C27: no file that fails the inclusion predicate is in the page handed to
\* processFileForInventory, and the statistics of the batch (totalFiles,
\* errors and every other one) are those of the drive without those files.
C27_SkippedNotCounted ==
  calc.fn = "getFilesToProcess" =>
    LET examined == SubSeq(calc.drive, 1, calc.pos)
        kept     == NotSkipped(calc.config, examined)
    IN  /\ \A k \in 1..Len(calc.files) : ~Skipped(calc.config, calc.drive[calc.files[k]])
        /\ Len(calc.files) = Len(kept)
        /\ calc.stats = ProcessFiles(FreshStats, kept)
        /\ calc.stats.totalFiles + calc.stats.errors = Len(kept)

\* a trashed file and a file whose isTrashed() raises lie between two plain
\* files: the page is the two plain files and only they are counted
C27_Witness ==
  /\ calc.fn = "getFilesToProcess"
  /\ ~calc.config.INCLUDE_TRASHED
  /\ Len(calc.drive) = 3
  /\ calc.drive[1].check = "plain" /\ calc.drive[2].check \in {"trashed", "trashedRaises"}
  /\ calc.drive[3].check = "plain"
  /\ calc.files = <<1, 3>>
  /\ calc.stats.totalFiles = 2 /\ calc.stats.errors = 0 /\ calc.stats.totalSize = 2

\* C28: a file whose getSharingAccess() or getSharingPermission() raises is
\* counted, with sharing access 'Private', permission 'None', no viewers
\* and no editors, and is not in the shared-files list.
C28_SharingDefaults ==
  (calc.fn = "extractFileData" /\ calc.read.raisesAt \in {"access", "permission"}) =>
    /\ calc.data = [ sharingAccess |-> "Private", sharingPermission |-> "None",
                     viewers |-> <<>>, editors |-> <<>> ]
    /\ calc.stats.totalFiles = 1
    /\ calc.stats.errors = 0
    /\ calc.stats.sharedFiles = <<>>

\* the access of a public file was read, then getSharingPermission() raised
C28_Witness ==
  /\ calc.fn = "extractFileData"
  /\ calc.read.raisesAt = "permission" /\ calc.read.access = "ANYONE"
  /\ calc.data.sharingAccess = "Private"
  /\ calc.stats.totalFiles = 1 /\ calc.stats.sharedFiles = <<>>

\* C29: in every batch totalFiles grows by exactly the number of files of
\* the page whose processing did not raise, totalSize by their sizes, and
\* the duplicate candidates by one record for each of them.
C29_ExactlyOnceOnFailure ==
  [][(inv.pc = "batch" /\ inv'.pc = "save") =>
       LET before == initializeStats(props.inventoryStats)
           ok     == { i \in PageOf(inv') : listing[i].fail = "none" }
           sizes  == LET RECURSIVE Total(_)
                         Total(I) == IF I = {} THEN 0
                                     ELSE LET i == CHOOSE x \in I : TRUE
                                          IN  listing[i].size + Total(I \ {i})
                     IN  Total(ok)
       IN  /\ inv'.stats.totalFiles = before.totalFiles + Cardinality(ok)
           /\ inv'.stats.totalSize = before.totalSize + sizes
           /\ Sum(inv'.stats.duplicateCandidates)
                = Sum(before.duplicateCandidates) + Cardinality(ok)]_vars

\* C30: stopAutomaticInventory sets autoMode to 'false', cancels the pending
\* triggers and shows PAUSED, and changes nothing else: cursor, statistics,
\* reports and the position and data of an executing invocation stay as
\* they are; a startAutomaticInventory after a stop keeps the stored cursor
\* and statistics, which its first batch then reads.
C30_StopSavesProgress ==
  /\ [][stopAutomaticInventory =>
          /\ props' = [props EXCEPT !.autoMode = "false"]
          /\ triggers' = 0
          /\ status' = "PAUSED"
          /\ [inv' EXCEPT !.stopped = inv.stopped] = inv
          /\ UNCHANGED <<listing, report, handed, last>>]_vars
  /\ [][(startAutomaticInventory /\ props.autoMode = "false") =>
          /\ props'.continuationToken = props.continuationToken
          /\ props'.inventoryStats = props.inventoryStats
          /\ inv'.pc = "batch"]_vars
  /\ [][(inv.pc = "batch" /\ inv'.pc = "save") =>
          /\ inv'.from = props.continuationToken
          /\ inv'.stats.totalFiles >= initializeStats(props.inventoryStats).totalFiles]_vars

\* a run was stopped, cursor and statistics of its batch are stored, and
\* startAutomaticInventory has been called: the checkpoint is still there
C30_Witness ==
  /\ inv.pc = "batch" /\ inv.auto /\ props.autoMode = "true"
  /\ status = "PAUSED"
  /\ props.continuationToken # 0 /\ props.inventoryStats # <<>>
  /\ initializeStats(props.inventoryStats).totalFiles > 0

\* C31: a continueAutomaticInventory that fires while autoMode is not 'true'
\* hands no file to processFileForInventory, starts no batch, leaves
\* continuationToken, inventoryStats and autoMode as they are, and leaves no
\* trigger pending.
C31_ContinuationAfterStop ==
  [][(continueAutomaticInventory /\ props.autoMode # "true") =>
       /\ props' = props
       /\ handed' = handed
       /\ inv' = inv /\ inv'.pc = "idle"
       /\ triggers' = 0
       /\ UNCHANGED <<listing, status, report>>]_vars

\* an invocation stopped while it was executing scheduled a continuation at
\* its time check, and that continuation fired with autoMode 'false': the
\* checkpoint of the stopped run is still stored and nothing is pending
C31_Witness ==
  /\ last.end = "disabled" /\ inv.pc = "idle"
  /\ props.autoMode = "false"
  /\ props.continuationToken # 0 /\ props.inventoryStats # <<>>
  /\ triggers = 0


\* the statistics of the code-files inventory over a drive processed as
\* one batch
CodeOnePass(drive) == ProcessCodeFiles(FreshCodeStats, drive)

\* the fields of code statistics that the comparison is about
CodeTotals(stats) ==
  [ totalFiles |-> stats.totalFiles, byLanguage |-> stats.byLanguage,
    repositories |-> stats.repositories, errors |-> stats.errors ]

\* C32: the statistics the final reports of the code-files inventory are
\* generated from have the same totalFiles, byLanguage, repositories and
\* errors as one batch over the whole drive gives, however many batches
\* the pass took, and no file of the pass raised.
C32_CodeResumption ==
  (calc.fn = "inventoryCodeFiles" /\ calc.report # <<>>) =>
     /\ CodeTotals(calc.report[1]) = CodeTotals(CodeOnePass(calc.drive))
     /\ calc.report[1].errors = 0


\* the categories getFileCategory names
Categories ==
  {"Configuration", "Script", "Test", "Documentation", "Build", "Source Code"}

\* C33: getFileCategory returns the category of the first rule, in the
\* order Configuration, Script, Test, Documentation, Build, whose condition
\* the lower-cased name meets, and Source Code only when it meets none;
\* each of the six categories is returned for some name.
C33_OrderedCategories ==
  /\ calc.fn = "getFileCategory" =>
       LET n == toLowerCase(calc.fileName)
           c == calc.category
       IN  /\ ConfigurationRule(n) => c = "Configuration"
           /\ (~ConfigurationRule(n) /\ ScriptRule(n)) => c = "Script"
           /\ (~ConfigurationRule(n) /\ ~ScriptRule(n) /\ TestRule(n)) => c = "Test"
           /\ (~ConfigurationRule(n) /\ ~ScriptRule(n) /\ ~TestRule(n)
                 /\ DocumentationRule(n)) => c = "Documentation"
           /\ (~ConfigurationRule(n) /\ ~ScriptRule(n) /\ ~TestRule(n)
                 /\ ~DocumentationRule(n) /\ BuildRule(n)) => c = "Build"
           /\ c = "Source Code" <=>
                ~(\/ ConfigurationRule(n) \/ ScriptRule(n) \/ TestRule(n)
                  \/ DocumentationRule(n) \/ BuildRule(n))
           /\ c \in Categories
  /\ \A c \in Categories : \E n \in CategoryNames : getFileCategory(n) = c

\* a name that meets the configuration rule and the script rule was
\* categorized as Configuration
C33_Witness ==
  /\ calc.fn = "getFileCategory"
  /\ calc.fileName = << "c", "o", "n", "f", "i", "g", ".", "s", "h" >>
  /\ ScriptRule(toLowerCase(calc.fileName))
  /\ calc.category = "Configuration"


\* C34: an invocation that ends because getFilesToProcess raised writes no
\* script property: continuationToken and inventoryStats are what they were
\* when it started; the inventoryDrive that follows finds them unchanged and
\* its batch starts from that cursor on top of those statistics.
C34_ListingFailureKeepsCheckpoint ==
  /\ [][ListingRaises =>
          /\ props'.continuationToken = props.continuationToken
          /\ props'.inventoryStats = props.inventoryStats
          /\ UNCHANGED <<report, handed>>]_vars
  /\ [][(inventoryDrive /\ last.end = "listfail") =>
          /\ props' = props
          /\ inv'.pc = "batch"]_vars
  /\ [][(inv.pc = "batch" /\ inv'.pc = "save") =>
          /\ inv'.from = props.continuationToken
          /\ inv'.pos > props.continuationToken
          /\ inv'.stats.totalFiles >= initializeStats(props.inventoryStats).totalFiles
          /\ inv'.stats.errors >= initializeStats(props.inventoryStats).errors
          /\ inv'.stats.totalFiles + inv'.stats.errors
               >= initializeStats(props.inventoryStats).totalFiles
                    + initializeStats(props.inventoryStats).errors
                    + Cardinality(PageOf(inv'))]_vars

\* the second invocation of a run ended with a listing failure: cursor and
\* statistics of the first batch are still stored
C34_Witness ==
  /\ inv.pc = "idle" /\ last.end = "listfail"
  /\ props.continuationToken # 0 /\ props.inventoryStats # <<>>
  /\ initializeStats(props.inventoryStats).totalFiles > 0


\* the sum of the counts of a counter object
SumOfCounts(m) ==
  LET RECURSIVE Acc(_)
      Acc(K) == IF K = {} THEN 0
                ELSE LET k == CHOOSE x \in K : TRUE IN m[k] + Acc(K \ {k})
  IN  Acc(DOMAIN m)

\* totalFiles agrees with the per-type, per-owner and per-year counters and
\* with the number of duplicate-candidate records
Consistent(stats) ==
  /\ stats.totalFiles = SumOfCounts(stats.filesByType)
  /\ stats.totalFiles = SumOfCounts(stats.filesByOwner)
  /\ stats.totalFiles = SumOfCounts(stats.filesByYear)
  /\ stats.totalFiles = Sum(stats.duplicateCandidates)

\* C35: the statistics stored in inventoryStats, the statistics an
\* invocation holds once the for loop of its batch has ended, and the
\* statistics the final reports are generated from all have totalFiles equal
\* to the sum of filesByType, of filesByOwner and of filesByYear and to the
\* number of duplicate-candidate records.
C35_CounterConsistency ==
  /\ Consistent(initializeStats(props.inventoryStats))
  /\ inv.pc \in {"save", "cursor", "loop"} => Consistent(inv.stats)
  /\ report # <<>> => Consistent(report[1])

\* the statistics of a batch are stored: two files of the same type were
\* counted, and at least one file raised
C35_Witness ==
  /\ inv.pc = "idle" /\ props.continuationToken # 0
  /\ initializeStats(props.inventoryStats).totalFiles = 2
  /\ initializeStats(props.inventoryStats).errors >= 1
  /\ \E t \in DOMAIN initializeStats(props.inventoryStats).filesByType :
       initializeStats(props.inventoryStats).filesByType[t] = 2


\* C36: whenever no invocation is executing, stored statistics come with a
\* stored cursor: inventoryStats is present only if continuationToken is.
C36_CheckpointAllOrNothing ==
  inv.pc = "idle" => (props.inventoryStats # <<>> => props.continuationToken # 0)


\* C37: a shared file that is public with EDIT permission, of a sensitive
\* type and with at least one high-risk keyword in its name gets a risk
\* score of at least 70 and is put on stats.highRiskFiles.
C37_HighRiskReachable ==
  ( /\ calc.fn = "assessSecurityRisk"
    /\ isPublic(calc.a) /\ calc.a.sharingPermission = "EDIT"
    /\ toLowerCase(calc.a.type) \in sensitiveTypes
    /\ calc.a.keywordHits >= 1 ) =>
      /\ calc.scoreA >= 70
      /\ highRiskFiles(calc.a) # << >>


\* C38: when a pass that began right after resetInventory has completed
\* over a drive none of whose files raises, the File List sheet holds one
\* data row for each included file and no other row.
C38_FreshFileList ==
  ( /\ calc.fn = "addToFileListSheet"
    /\ calc.complete /\ calc.afterReset
    /\ \A i \in 1..Len(calc.drive) : calc.drive[i].fail = "none" ) =>
      /\ Len(calc.rows) = Cardinality({ i \in 1..Len(calc.drive) : calc.drive[i].incl })
      /\ \A i \in 1..Len(calc.drive) :
           calc.drive[i].incl =>
             Cardinality({ r \in 1..Len(calc.rows) : calc.rows[r] = i }) = 1


\* the listed triggers of a project with one of the given handlers
Listed(c, handlers) ==
  { i \in 1..Len(c.triggers) : c.triggers[i].handler \in handlers }

\* C39: between the calls of the inventory's functions the project lists at
\* most one trigger with handler continueAutomaticInventory, and next to it
\* no other inventory trigger; the triggers of other functions are kept.
C39_OnePendingContinuation ==
  calc.fn = "scheduleNextRun" =>
    /\ Cardinality(Listed(calc, {"continueAutomaticInventory"})) <= 1
    /\ Cardinality(Listed(calc, InventoryHandlers)) <= 1

\* a continuation fired and ended on the time check: the trigger that fired
\* is gone and one new continuation is listed, next to the trigger of
\* another function
C39_Witness ==
  /\ calc.fn = "scheduleNextRun"
  /\ calc.last = "continueAutomaticInventory"
  /\ Len(calc.triggers) = 2
  /\ \E i \in Listed(calc, {"continueAutomaticInventory"}) : ~calc.triggers[i].fired
  /\ Listed(calc, {"onOpen"}) # {}

====
